---- MODULE Spec2Model ----
(***************************************************************************)
(* Verification model of the REST API tester: the request pipeline of      *)
(* swagger_tester.test_single_endpoint (SpecPipeline), the HTTP probe      *)
(* call_endpoint (SpecProbe), the combination generator                    *)
(* run_combinatorial_tests read window by window (SpecComb), its value     *)
(* pools and enumeration for one call (SpecGen), the request builder       *)
(* build_test_url with its callers (SpecBuild), endpoint discovery         *)
(* (SpecDisc), parse_endpoints on one operation (SpecParse), the analysis  *)
(* client ask_gemini (SpecAsk), and the handlers of the Flask front end    *)
(* app.py with their endpoint cache (SpecApp).                             *)
(***************************************************************************)
EXTENDS Integers, Sequences, FiniteSets, TLC

(***************************************************************************)
(* Python values.  A value is a record [t, v]: t is "none", "str" or       *)
(* "list"; v is a sequence of samples and a sample is the sequence of the  *)
(* comma-separated tokens of a string ("a,b" is <<"a","b">>, "" is <<"">>).*)
(* A "str" holds one sample, a "list" any number, None holds none.         *)
(* Tokens carry no surrounding blanks, so str.strip() leaves them as is.   *)
(***************************************************************************)
NoneV == [t |-> "none", v |-> <<>>]

StrV(toks) == [t |-> "str", v |-> <<toks>>]

S(tok) == StrV(<<tok>>)

ListV(samples) == [t |-> "list", v |-> samples]

IsNone(x) == x.t = "none"

\* Python truthiness of None / str / list
Truthy(x) ==
  CASE x.t = "none" -> FALSE
    [] x.t = "str"  -> x.v[1] /= <<"">>
    [] OTHER        -> x.v /= <<>>

\* a or b
OrElse(a, b) == IF Truthy(a) THEN a ELSE b

\* "," in str(x), for a str x
HasComma(x) == x.t = "str" /\ Len(x.v[1]) > 1

\* str.lower() on the tokens the model uses
Lower(tok) ==
  CASE tok = "True"  -> "true"
    [] tok = "False" -> "false"
    [] OTHER         -> tok

LowerSample(s) == [i \in 1..Len(s) |-> Lower(s[i])]

(***************************************************************************)
(* Sequence helpers                                                        *)
(***************************************************************************)
Range(s) == {s[i] : i \in 1..Len(s)}

InSeq(x, s) == \E i \in 1..Len(s) : s[i] = x

RECURSIVE Flatten(_)
Flatten(ss) == IF ss = <<>> THEN <<>> ELSE Head(ss) \o Flatten(Tail(ss))

\* s[a:b] of Python for 0 <= a, 0 <= b
Min(x, y) == IF x < y THEN x ELSE y

Slice(s, a, b) ==
  IF Min(b, Len(s)) <= Min(a, Len(s)) THEN <<>> ELSE SubSeq(s, Min(a, Len(s)) + 1, Min(b, Len(s)))

NoDup(s) == \A i, j \in 1..Len(s) : i /= j => s[i] /= s[j]

(***************************************************************************)
(* Dictionaries are functions from key strings; d.get(k, dflt) is Get.     *)
(***************************************************************************)
EmptyDict == <<>>

Get(d, k, dflt) == IF k \in DOMAIN d THEN d[k] ELSE dflt

\* d.copy(); d[k] = x
Put(d, k, x) == [n \in DOMAIN d \cup {k} |-> IF n = k THEN x ELSE d[n]]

(***************************************************************************)
(* Endpoint definitions, as parse_endpoints produces them: a method, the   *)
(* ordered parameter list (query, path and flattened body parameters) and  *)
(* the request-body schema: the names of its properties in document order, *)
(* the required ones, and each property as the document declares it.       *)
(***************************************************************************)
Param(name, loc, required, type, example, default, enum) ==
  [name |-> name, in |-> loc, required |-> required, type |-> type,
   example |-> example, default |-> default, enum |-> enum]

\* a property of request_body_schema["properties"]: its declared type, example
\* and default (None when the document declares none)
Prop(type, example, default) == [type |-> type, example |-> example, default |-> default]

\* GET /ping: no parameters
EpPing ==
  [method |-> "GET", path |-> "/ping", params |-> <<>>,
   body_props |-> <<>>, body_required |-> {}, body_schema |-> <<>>]

\* PATCH /status: no parameters
EpStatus ==
  [method |-> "PATCH", path |-> "/status", params |-> <<>>,
   body_props |-> <<>>, body_required |-> {}, body_schema |-> <<>>]

\* GET /items?category=&limit= : category required, limit optional (default 10)
EpItems ==
  [method |-> "GET", path |-> "/items",
   params |-> << Param("category", "query", TRUE, "string", S("shoes"), NoneV, <<>>),
                 Param("limit", "query", FALSE, "integer", S("10"), S("10"), <<>>) >>,
   body_props |-> <<>>, body_required |-> {}, body_schema |-> <<>>]

\* GET /users/{id}?fields= : one path parameter, one field selector
EpUser ==
  [method |-> "GET", path |-> "/users/{id}",
   params |-> << Param("id", "path", TRUE, "integer", S("1"), NoneV, <<>>),
                 Param("fields", "query", FALSE, "string", S("test"), NoneV, <<>>) >>,
   body_props |-> <<>>, body_required |-> {}, body_schema |-> <<>>]

\* POST /login with a JSON body {username, password}
EpLogin ==
  [method |-> "POST", path |-> "/login",
   params |-> << Param("username", "body", TRUE, "string", S("test"), NoneV, <<>>),
                 Param("password", "body", FALSE, "string", S("test"), NoneV, <<>>) >>,
   body_props |-> <<"username", "password">>, body_required |-> {"username"},
   body_schema |-> [n \in {"username", "password"} |-> Prop("string", NoneV, NoneV)]]

\* GET /search?active=&sort= : a boolean and an enumerated parameter
EpSearch ==
  [method |-> "GET", path |-> "/search",
   params |-> << Param("active", "query", FALSE, "boolean", S("true"), NoneV, <<>>),
                 Param("sort", "query", TRUE, "string", S("asc"), NoneV, <<"asc", "desc">>) >>,
   body_props |-> <<>>, body_required |-> {}, body_schema |-> <<>>]

\* GET /teams/{team}/members/{member}: two path parameters
EpMember ==
  [method |-> "GET", path |-> "/teams/{team}/members/{member}",
   params |-> << Param("team", "path", TRUE, "string", S("test"), NoneV, <<>>),
                 Param("member", "path", TRUE, "integer", S("1"), NoneV, <<>>) >>,
   body_props |-> <<>>, body_required |-> {}, body_schema |-> <<>>]

ParamNames(ep) == [i \in 1..Len(ep.params) |-> ep.params[i].name]

(***************************************************************************)
(* Value Pool Builder (run_combinatorial_tests, part 1)                    *)
(***************************************************************************)
\* itertools.combinations(s, k): the k-element subsequences, in index order
ConsAll(x, ss) == [i \in 1..Len(ss) |-> <<x>> \o ss[i]]

RECURSIVE combinations(_, _)
combinations(s, k) ==
  IF k = 0 THEN << <<>> >>
  ELSE IF Len(s) < k THEN <<>>
  ELSE ConsAll(Head(s), combinations(Tail(s), k - 1)) \o combinations(Tail(s), k)

\* seen = []; for c in candidates: if c not in seen: seen.append(c)
RECURSIVE DedupFrom(_, _)
DedupFrom(seen, cands) ==
  IF cands = <<>> THEN seen
  ELSE DedupFrom(IF InSeq(Head(cands), seen) THEN seen ELSE Append(seen, Head(cands)),
                 Tail(cands))

\* a pool that keeps every candidate, repeated or not
DeduplicateBad(cands) == cands

\* seen = []; for c in candidates: if c not in seen: seen.append(c)
Deduplicate(cands) == DedupFrom(<<>>, cands)

\* UI samples: the override text, split at commas when it has one
UiSamples(ui_val) ==
  IF ~Truthy(ui_val) THEN <<>>
  ELSE IF HasComma(ui_val)
       THEN [i \in 1..Len(ui_val.v[1]) |-> <<ui_val.v[1][i]>>]
       ELSE <<ui_val.v[1]>>

\* the random fuzz value, appended whole
WithFuzz(samples, fuzz_val) ==
  IF Truthy(fuzz_val) THEN Append(samples, fuzz_val.v[1]) ELSE samples

\* if tok not in [str(s).lower() for s in all_samples]: all_samples.append(tok)
WithBoolean(samples, tok) ==
  IF InSeq(<<tok>>, [i \in 1..Len(samples) |-> LowerSample(samples[i])])
  THEN samples ELSE Append(samples, <<tok>>)

\* boolean auto-coverage
BooleanCoverage(p, samples) ==
  IF p.type = "boolean" THEN WithBoolean(WithBoolean(samples, "true"), "false") ELSE samples

\* all_samples of an included parameter
AllSamples(p, base_overrides, random_overrides) ==
  BooleanCoverage(p, WithFuzz(UiSamples(Get(base_overrides, p.name, S(""))),
                              Get(random_overrides, p.name, NoneV)))

\* [list(combo) for combo in combinations(all_samples, i)]
SubsetsOfSize(all_samples, i) ==
  LET cs == combinations(all_samples, i)
  IN  [j \in 1..Len(combinations(all_samples, i)) |-> ListV(cs[j])]

\* candidates: the power-set for a multi parameter, else the samples
Candidates(p, all_samples, multi_params) ==
  IF p.name \in multi_params
  THEN Flatten([i \in 1..Len(all_samples) |-> SubsetsOfSize(all_samples, i)])
  ELSE [i \in 1..Len(all_samples) |-> StrV(all_samples[i])]

\* str(p.get("example") or p.get("default") or "test")
ExampleOrDefault(p) == OrElse(OrElse(p.example, p.default), S("test"))

\* an excluded required parameter that may also be left out
ExcludedPoolBad(p) == IF p.required THEN <<ExampleOrDefault(p), NoneV>> ELSE <<NoneV>>

\* the pool of a parameter outside the inclusion filter
ExcludedPool(p) == IF p.required THEN <<ExampleOrDefault(p)>> ELSE <<NoneV>>

\* a construction that appends the absence sentinel to every sampled pool
FinalPoolBad(p, seen) ==
  IF seen /= <<>>
  THEN IF ~InSeq(NoneV, seen) THEN Append(seen, NoneV) ELSE seen
  ELSE IF p.required THEN <<ExampleOrDefault(p), NoneV>> ELSE <<NoneV>>

\* FINAL POOL CONSTRUCTION, from the deduplicated candidates
FinalPool(p, seen) ==
  IF seen /= <<>>
  THEN IF ~p.required /\ ~InSeq(NoneV, seen) THEN Append(seen, NoneV) ELSE seen
  ELSE IF p.required THEN <<ExampleOrDefault(p), NoneV>> ELSE <<NoneV>>

\* the pool of one parameter
BuildPool(p, base_overrides, random_overrides, multi_params, include_params) ==
  IF ~InSeq(p.name, include_params)
  THEN ExcludedPool(p)
  ELSE FinalPool(p, Deduplicate(Candidates(p,
                      AllSamples(p, base_overrides, random_overrides), multi_params)))

\* include_params or [p["name"] for p in endpoint["params"]]
EffectiveInclude(ep, include_params) ==
  IF include_params.given /\ include_params.names /= <<>>
  THEN include_params.names ELSE ParamNames(ep)

\* parameter_pools: a later parameter of the same name overwrites an earlier one
LastIndex(ep, name) ==
  CHOOSE i \in 1..Len(ep.params) :
    /\ ep.params[i].name = name
    /\ \A j \in (i + 1)..Len(ep.params) : ep.params[j].name /= name

parameter_pools(ep, a) ==
  [name \in Range(ParamNames(ep)) |->
     BuildPool(ep.params[LastIndex(ep, name)], a.param_overrides.m, a.random_overrides,
               a.multi_params, EffectiveInclude(ep, a.include_params))]

\* baseline_values[name] = pool[0]
BaselineOf(pools) == [name \in DOMAIN pools |-> pools[name][1]]

baseline_values(ep, a) == BaselineOf(parameter_pools(ep, a))

(***************************************************************************)
(* Combination Generator (run_combinatorial_tests, part 2)                 *)
(***************************************************************************)
\* for each value of the first pool, in order, every tail
Prepend(first, rest) ==
  Flatten([i \in 1..Len(first) |-> [j \in 1..Len(rest) |-> <<first[i]>> \o rest[j]]])

\* itertools.product(*pools): lexicographic, the last pool varying fastest
RECURSIVE product(_)
product(pools) ==
  IF pools = <<>> THEN << <<>> >> ELSE Prepend(Head(pools), product(Tail(pools)))

\* a main pool that keeps the isolated parameters
MainPoolNamesBad(include_params, isolated_params) == include_params

\* [name for name in include_params if name not in isolated_params]
MainPoolNames(include_params, isolated_params) ==
  SelectSeq(include_params, LAMBDA name : ~InSeq(name, isolated_params))

main_pool_names(ep, a) ==
  MainPoolNames(EffectiveInclude(ep, a.include_params), a.isolated_params)

\* d = baseline_values.copy(); for i, name in enumerate(names): d[name] = combo[i]
RECURSIVE AssignAll(_, _, _)
AssignAll(d, names, combo) ==
  IF names = <<>> THEN d
  ELSE AssignAll(Put(d, Head(names), Head(combo)), Tail(names), Tail(combo))

CombosToDicts(base, names, combos) ==
  [i \in 1..Len(combos) |-> AssignAll(base, names, combos[i])]

\* main_pools = [parameter_pools[name] for name in main_pool_names]
MainCombos(pools, names) ==
  CombosToDicts(BaselineOf(pools), names, product([i \in 1..Len(names) |-> pools[names[i]]]))

\* for val in full_pool: if val == baseline_v: continue; d[name] = val
SweepDicts(base, name, vals) == [i \in 1..Len(vals) |-> Put(base, name, vals[i])]

\* a sweep that does not skip the baseline value
IsolatedSweepBad(pools, name) ==
  IF name \notin DOMAIN pools THEN <<>>
  ELSE SweepDicts(BaselineOf(pools), name, pools[name])

\* the sweep of one isolated parameter: every pool value but the baseline
IsolatedSweep(pools, name) ==
  IF name \notin DOMAIN pools THEN <<>>
  ELSE SweepDicts(BaselineOf(pools), name,
                  SelectSeq(pools[name], LAMBDA val : val /= pools[name][1]))

IsolatedCombos(pools, isolated_params) ==
  Flatten([i \in 1..Len(isolated_params) |-> IsolatedSweep(pools, isolated_params[i])])

AllCombos(pools, include_params, isolated_params) ==
  MainCombos(pools, MainPoolNames(include_params, isolated_params))
    \o IsolatedCombos(pools, isolated_params)

\* all_combos_dicts
all_combos_dicts(ep, a) ==
  AllCombos(parameter_pools(ep, a), EffectiveInclude(ep, a.include_params), a.isolated_params)

\* a window that starts one position late
WindowBad(all, offset, limit) == Slice(all, offset + 1, offset + limit)

\* all_combos_dicts[offset : offset + limit]
Window(all, offset, limit) == Slice(all, offset, offset + limit)

\* subset: the combinations one call tests
Subset(all, mode, offset, limit) ==
  IF mode = "minimal" THEN Slice(all, 0, 1) ELSE Window(all, offset, limit)

subset(ep, a) ==
  Subset(all_combos_dicts(ep, a), a.combinatorial_mode, a.comb_offset, a.comb_limit)

(***************************************************************************)
(* HTTP Probe (call_endpoint).  A transport outcome is what the requests   *)
(* library does with the call: a response with a status, or one of the     *)
(* exceptions ConnectionError, ConnectTimeout (a ConnectionError and a     *)
(* Timeout), ReadTimeout (a Timeout), or another RequestException.         *)
(***************************************************************************)
\* "status_code": None
NoStatus == 0

\* "error": None
NoError == "None"

\* body_str[:2000] + "..." of swagger_tester.call_endpoint
JsonPreviewLimit == 2000

\* resp.text[:1000] of swagger_tester.call_endpoint
TextPreviewLimit == 1000

\* body_str[:3000] + "..." of ai_api_tester.call_endpoint
AiJsonPreviewLimit == 3000

\* resp.text[:1500] of ai_api_tester.call_endpoint
AiTextPreviewLimit == 1500

\* a response: its status, whether the body decodes as JSON, the body length
ResponseWithBody(status, json, len) ==
  [kind |-> "response", status |-> status, json |-> json, len |-> len]

Response(status, json) == ResponseWithBody(status, json, 0)

Failure(kind) == [kind |-> kind, status |-> NoStatus, json |-> FALSE, len |-> 0]

\* requests.exceptions: ConnectTimeout is a ConnectionError and a Timeout
IsConnectionError(t) == t.kind \in {"ConnectionError", "ConnectTimeout"}

IsTimeout(t) == t.kind \in {"ConnectTimeout", "ReadTimeout"}

IsRequestException(t) ==
  t.kind \in {"ConnectionError", "ConnectTimeout", "ReadTimeout", "RequestException"}

\* the except clauses with Timeout tried before ConnectionError
ErrorTextBad(t) ==
  IF IsTimeout(t) THEN "Timed out"
  ELSE IF IsConnectionError(t) THEN "Connection refused or DNS failure"
  ELSE IF IsRequestException(t) THEN "RequestException"
  ELSE "uncaught"

\* the except clauses of call_endpoint, in their order; "uncaught" when no
\* clause matches and the exception leaves call_endpoint
ErrorText(t) ==
  IF IsConnectionError(t) THEN "Connection refused or DNS failure"
  ELSE IF IsTimeout(t) THEN "Timed out"
  ELSE IF IsRequestException(t) THEN "RequestException"
  ELSE "uncaught"

\* the except clauses of ai_api_tester.call_endpoint
AiErrorText(t) ==
  IF IsConnectionError(t) THEN "Connection refused or DNS failure"
  ELSE IF IsTimeout(t) THEN "Request timed out"
  ELSE IF IsRequestException(t) THEN "RequestException"
  ELSE "uncaught"

\* the length of body_preview
PreviewLen(t, jsonLimit, textLimit) ==
  IF t.json THEN (IF t.len > jsonLimit THEN jsonLimit + 3 ELSE t.len)
  ELSE Min(t.len, textLimit)

\* swagger_tester.call_endpoint: the result dict
call_endpoint(method, t) ==
  IF t.kind = "response"
  THEN [method |-> method, status_code |-> t.status, is_json |-> t.json,
        body_preview |-> PreviewLen(t, JsonPreviewLimit, TextPreviewLimit), error |-> NoError]
  ELSE [method |-> method, status_code |-> NoStatus, is_json |-> FALSE,
        body_preview |-> 0, error |-> ErrorText(t)]

\* ai_api_tester.call_endpoint: always a GET
ai_call_endpoint(t) ==
  IF t.kind = "response"
  THEN [method |-> "GET", status_code |-> t.status, is_json |-> t.json,
        body_preview |-> PreviewLen(t, AiJsonPreviewLimit, AiTextPreviewLimit), error |-> NoError]
  ELSE [method |-> "GET", status_code |-> NoStatus, is_json |-> FALSE,
        body_preview |-> 0, error |-> AiErrorText(t)]

(***************************************************************************)
(* Test phases of test_single_endpoint: what each phase probes             *)
(***************************************************************************)
\* fuzz_values of run_path_fuzzing
fuzz_values == <<"null", "undefined", "NaN", "0", "-1", "999999999", "INVALID_PATH">>

\* selector_keywords of find_field_selectors
selector_keywords == {"fields", "select", "required_fields", "include", "exclude"}

ParamsIn(ep, loc) == SelectSeq(ep.params, LAMBDA p : p.in = loc)

\* bad_method of run_negative_tests
bad_method(ep) == IF ep.method = "GET" THEN "DELETE" ELSE "PATCH"

\* run_path_fuzzing: every path parameter with every fuzz value
PathFuzzPlan(ep) ==
  LET pp == ParamsIn(ep, "path")
  IN  Flatten([i \in 1..Len(pp) |->
                [j \in 1..Len(fuzz_values) |-> [param |-> pp[i].name, value |-> fuzz_values[j]]]])

\* overrides = base_overrides.copy() if base_overrides else {};
\* overrides[p["name"]] = val
FuzzOverrides(base_overrides, name, val) ==
  [n \in DOMAIN base_overrides.m \cup {name} |->
     IF n = name THEN S(val) ELSE base_overrides.m[n]]

\* a verdict that counts a 200 as a pass
PathVerdictBad(status_code) ==
  IF status_code \in {200, 404, 400, 422} THEN "PASS" ELSE "FAIL"

\* status = "PASS" if status_code in (404, 400, 422) else "FAIL";
\* if status_code == 200: status = "WARN (200 OK?)"
PathVerdict(status_code) ==
  IF status_code = 200 THEN "WARN (200 OK?)"
  ELSE IF status_code \in {404, 400, 422} THEN "PASS" ELSE "FAIL"

\* run_enum_testing: every parameter that declares an enum
EnumPlan(ep) ==
  LET ps == SelectSeq(ep.params, LAMBDA p : p.enum /= <<>>)
  IN  [i \in 1..Len(ps) |-> [param |-> ps[i].name, value |-> "INVALID_ENUM_VALUE"]]

\* run_combinatorial_tests: nothing for an endpoint without parameters
CombPlan(ep, a) == IF ep.params = <<>> THEN <<>> ELSE subset(ep, a)

\* total_count as run_combinatorial_tests returns it
total_count(ep, a) == IF ep.params = <<>> THEN 0 ELSE Len(all_combos_dicts(ep, a))

\* the granular fuzz loop: one probe per random override (in parameter order)
GranularPlan(ep, a) ==
  LET ps == SelectSeq(ep.params, LAMBDA p : p.name \in DOMAIN a.random_overrides)
  IN  [i \in 1..Len(ps) |-> [param |-> ps[i].name, value |-> "random"]]

\* has_creds
has_creds(ep) == InSeq("username", ParamNames(ep)) \/ InSeq("password", ParamNames(ep))

AuthPlan(ep) ==
  IF has_creds(ep)
  THEN << [param |-> "token_only", value |-> "token"], [param |-> "creds_only", value |-> "none"] >>
  ELSE << [param |-> "auth_check", value |-> "none"], [param |-> "invalid_token", value |-> "bad"] >>

\* removable_params / emptyable_params: the query parameters, then the body
\* properties, kept when the inclusion filter (if one is given) names them
RemovablePlan(ep, a) ==
  LET q == ParamsIn(ep, "query")
      names == [i \in 1..Len(q) |-> q[i].name] \o ep.body_props
      kept == SelectSeq(names, LAMBDA n : a.include_params.given => InSeq(n, a.include_params.names))
  IN  [i \in 1..Len(kept) |-> [param |-> kept[i], value |-> "removed"]]

\* test_single_endpoint runs both parameter phases only "if query_params"
ParamPlan(ep, a) == IF ParamsIn(ep, "query") = <<>> THEN <<>> ELSE RemovablePlan(ep, a)

\* run_field_progression_test: per selector the empty probe, and the subset
\* probe when the current value is comma-joined
SelectorProbes(p, a) ==
  LET given == Get(a.param_overrides.m, p.name, NoneV)
      current_val == IF Truthy(given) THEN given ELSE OrElse(p.example, p.default)
  IN  IF Truthy(current_val) /\ HasComma(current_val)
      THEN << [param |-> p.name, value |-> "empty"], [param |-> p.name, value |-> "subset"] >>
      ELSE << [param |-> p.name, value |-> "empty"] >>

FieldPlan(ep, a) ==
  LET sel == SelectSeq(ep.params, LAMBDA p : p.name \in selector_keywords)
  IN  Flatten([i \in 1..Len(sel) |-> SelectorProbes(sel[i], a)])

\* build_test_url raises TypeError when a path parameter's override is not a str
BuildRaises(ep, overrides) ==
  \E i \in 1..Len(ep.params) :
     /\ ep.params[i].in = "path"
     /\ ep.params[i].name \in DOMAIN overrides
     /\ overrides[ep.params[i].name].t /= "str"

(***************************************************************************)
(* Bounds of the model                                                     *)
(***************************************************************************)
\* probes of one pipeline run that answer anything but 200
MaxFaults == 1

\* comb_offset ranges over 0..MaxOffset
MaxOffset == 3

\* comb_limit ranges over 1..MaxLimit
MaxLimit == 2

(***************************************************************************)
(* State                                                                   *)
(***************************************************************************)
VARIABLES
  ep,       \* test_single_endpoint: the endpoint under test
  a,        \* test_single_endpoint: its other arguments
  pc,       \* test_single_endpoint: the phase it is in; "done" / "raised" at the end
  idx,      \* position in the current phase's probe list (1-based)
  probes,   \* every request handed to call_endpoint so far, in order
  loc,      \* the local variables holding the phase results
  ret,      \* the record test_single_endpoint returned
  CACHED_ENDPOINTS,  \* app.py: the discovered-endpoint cache
  req,      \* app.py: the requests being handled, one thread each
  discoveries,       \* app.py: calls of fetch_all_endpoints so far
  populations,       \* app.py: assignments to CACHED_ENDPOINTS so far
  probe_call,    \* call_endpoint: the call being made
  probe_result,  \* call_endpoint: what the call produced
  pager,    \* a client paging through run_combinatorial_tests
  gen,      \* run_combinatorial_tests: the pools and the enumeration it built
  built,    \* build_test_url: the call made and the request it built
  disc,     \* endpoint discovery: fetch_all_endpoints / main at work
  parsed,   \* parse_endpoints: the operation given and the parameters parsed
  gemini    \* ask_gemini: the model and attempt it is at, the requests made

pipeVars == <<ep, a, pc, idx, probes, loc, ret>>

appVars == <<CACHED_ENDPOINTS, req, discoveries, populations>>

toolVars == <<disc, parsed, gemini>>

genVars == <<gen, built, disc, parsed, gemini>>

probeVars == <<probe_call, probe_result>>

vars == <<ep, a, pc, idx, probes, loc, ret, CACHED_ENDPOINTS, req, discoveries,
          populations, probe_call, probe_result, pager, gen, built, disc, parsed, gemini>>

(***************************************************************************)
(* test_single_endpoint                                                    *)
(***************************************************************************)
NoResult ==
  [method |-> "", status_code |-> NoStatus, is_json |-> FALSE, body_preview |-> 0,
   error |-> NoError]

NoReturn == [kind |-> "none"]

NoOverrides == [given |-> FALSE, m |-> EmptyDict]

Overrides(m) == [given |-> TRUE, m |-> m]

NoInclude == [given |-> FALSE, names |-> <<>>]

Include(names) == [given |-> TRUE, names |-> names]

\* the order in which test_single_endpoint runs its phases
PhaseOrder ==
  << "baseline", "negative", "path_fuzz", "enum", "comb", "gran_fuzz", "auth",
     "param_removal", "empty_values", "field_progression" >>

PlanLen(phase, e, args) ==
  CASE phase = "baseline"          -> 1
    [] phase = "negative"          -> 1
    [] phase = "path_fuzz"         -> Len(PathFuzzPlan(e))
    [] phase = "enum"              -> Len(EnumPlan(e))
    [] phase = "comb"              -> Len(CombPlan(e, args))
    [] phase = "gran_fuzz"         -> Len(GranularPlan(e, args))
    [] phase = "auth"              -> Len(AuthPlan(e))
    [] phase = "param_removal"     -> Len(ParamPlan(e, args))
    [] phase = "empty_values"      -> Len(ParamPlan(e, args))
    [] phase = "field_progression" -> Len(FieldPlan(e, args))

PhaseIndex(phase) == CHOOSE i \in 1..Len(PhaseOrder) : PhaseOrder[i] = phase

\* the next phase that has a probe to issue; "return" when none is left
NextPhase(phase, e, args) ==
  LET later == {i \in (PhaseIndex(phase) + 1)..Len(PhaseOrder) :
                  PlanLen(PhaseOrder[i], e, args) > 0}
  IN  IF later = {} THEN "return"
      ELSE PhaseOrder[CHOOSE i \in later : \A j \in later : i <= j]

\* move on within the phase, or to the next phase
Advance(phase) ==
  IF idx < PlanLen(phase, ep, a)
  THEN pc' = pc /\ idx' = idx + 1
  ELSE pc' = NextPhase(phase, ep, a) /\ idx' = 1

Probe(phase, method, auth, param, value, result) ==
  [phase |-> phase, method |-> method, auth |-> auth, param |-> param,
   value |-> value, status |-> result.status_code]

\* what the target may answer to one probe
Outcomes ==
  { Response(200, TRUE), Response(401, TRUE), Response(404, TRUE), Response(500, TRUE),
    Failure("ConnectionError") }

Deviations == Cardinality({i \in 1..Len(probes) : probes[i].status /= 200})

Allowed(o) == o = Response(200, TRUE) \/ Deviations < MaxFaults

\* an early exit that tests for the wrong status
EarlyExitBad(baseline) == baseline.status_code = 403

\* if baseline.get("status_code") == 401
EarlyExit(baseline) == baseline.status_code = 401

\* an early-exit record that leaves ai_analysis unset whatever run_ai is
HaltedRecordBad(baseline, args) ==
  [baseline |-> baseline,
   enum_results |-> <<>>,
   combinatorial_result |-> [results |-> <<>>, total_count |-> 0,
                             offset |-> args.comb_offset, limit |-> args.comb_limit],
   logic_findings |-> <<>>,
   granular_fuzz |-> <<>>,
   auth_findings |-> <<>>,
   ai_analysis |-> "None"]

\* the record returned on the early exit
HaltedRecord(baseline, args) ==
  [baseline |-> baseline,
   enum_results |-> <<>>,
   combinatorial_result |-> [results |-> <<>>, total_count |-> 0,
                             offset |-> args.comb_offset, limit |-> args.comb_limit],
   logic_findings |-> <<>>,
   granular_fuzz |-> <<>>,
   auth_findings |-> <<>>,
   ai_analysis |-> IF args.run_ai THEN "Authentication failed (401)" ELSE "None"]

\* the dict run_combinatorial_tests returns
CombinatorialResult(e, args, results) ==
  IF e.params = <<>>
  THEN [results |-> <<>>, total_count |-> 0, offset |-> 0, limit |-> args.comb_limit]
  ELSE [results |-> results, total_count |-> total_count(e, args),
        offset |-> args.comb_offset, limit |-> args.comb_limit]

\* the record returned at the end of a full run (endpoint, test_url and
\* logic_findings, which no probe feeds, are left out)
FullRecord(l, e, args, ai) ==
  [baseline |-> l.baseline,
   auth_test |-> l.auth_result,
   special_auth |-> l.special_auth,
   param_results |-> l.param_results,
   empty_results |-> l.empty_results,
   negative_results |-> l.neg_results,
   fuzz_test_results |-> l.fuzz_results_list,
   path_fuzz_results |-> l.path_fuzz_results,
   enum_results |-> l.enum_results,
   combinatorial_result |-> CombinatorialResult(e, args, l.comb_results),
   field_progression |-> l.field_progression,
   ai_analysis |-> ai]

InitLoc ==
  [baseline |-> NoResult, neg_results |-> <<>>, path_fuzz_results |-> <<>>,
   enum_results |-> <<>>, comb_results |-> <<>>, fuzz_results_list |-> <<>>,
   auth_result |-> NoResult, special_auth |-> EmptyDict, param_results |-> <<>>,
   empty_results |-> <<>>, field_progression |-> <<>>, r1 |-> NoResult]

(***************************************************************************)
(* The requests the model runs: endpoints with the arguments the front end *)
(* sends for them                                                          *)
(***************************************************************************)
ArgsBase ==
  [param_overrides |-> Overrides(EmptyDict), random_overrides |-> EmptyDict,
   multi_params |-> {}, include_params |-> NoInclude, isolated_params |-> <<>>,
   combinatorial_mode |-> "minimal", comb_offset |-> 0, comb_limit |-> MaxLimit,
   run_ai |-> FALSE]

\* per endpoint: overrides, fuzz values, multi / include / isolated choices
Variants(e) ==
  CASE e = EpPing -> {ArgsBase}
    [] e = EpStatus -> {ArgsBase}
    [] e = EpItems ->
         { [ArgsBase EXCEPT !.param_overrides = Overrides("category" :> S("shoes") @@ "limit" :> S("5"))],
           [ArgsBase EXCEPT !.param_overrides = Overrides("category" :> StrV(<<"a", "b">>)),
                            !.multi_params = {"category"},
                            !.random_overrides = ("limit" :> S("zz")),
                            !.isolated_params = <<"limit">>],
           [ArgsBase EXCEPT !.include_params = Include(<<"limit">>)] }
    [] e = EpUser ->
         { ArgsBase,
           [ArgsBase EXCEPT !.param_overrides = Overrides("id" :> S("5") @@ "fields" :> StrV(<<"a", "b">>))] }
    [] e = EpLogin ->
         { [ArgsBase EXCEPT !.param_overrides = Overrides("username" :> S("u") @@ "password" :> S("p"))] }
    [] e = EpSearch -> {ArgsBase}
    [] e = EpMember ->
         { [ArgsBase EXCEPT !.param_overrides = Overrides("team" :> S("core"))] }

Endpoints == {EpPing, EpStatus, EpItems, EpUser, EpLogin, EpSearch, EpMember}

\* minimal mode ignores the window; full mode is run for every window
Windows(v) ==
  {[v EXCEPT !.run_ai = r] : r \in BOOLEAN}
  \cup {[v EXCEPT !.combinatorial_mode = "full", !.comb_offset = o, !.comb_limit = l] :
          o \in 0..MaxOffset, l \in 1..MaxLimit}

PipelineInputs ==
  UNION {{[ep |-> e, a |-> w] : w \in UNION {Windows(v) : v \in Variants(e)}} : e \in Endpoints}

\* what ask_gemini may return
AiTexts == {"analysis text", "[All Gemini models exhausted]"}

\* the parts of the state a specification does not use stay as they are here
PipelineIdle ==
  /\ ep = EpPing /\ a = ArgsBase /\ pc = "idle" /\ idx = 1
  /\ probes = <<>> /\ loc = InitLoc /\ ret = NoReturn

AppIdle ==
  /\ CACHED_ENDPOINTS = <<>> /\ req = <<>> /\ discoveries = 0 /\ populations = 0

ProbeIdle ==
  /\ probe_call = [impl |-> "none", method |-> "", t |-> Failure("none"), returned |-> TRUE]
  /\ probe_result = NoResult

PagerIdle ==
  pager = [pc |-> "idle", ep |-> EpPing, a |-> ArgsBase, offset |-> 0,
           pages |-> <<>>, totals |-> <<>>, again |-> <<>>]

ToolsIdle == disc = [pc |-> "idle"] /\ parsed = [pc |-> "idle"] /\ gemini = [pc |-> "idle"]

GenIdle == gen = [pc |-> "idle"] /\ built = [pc |-> "idle"] /\ ToolsIdle

InitPipeline ==
  /\ \E i \in PipelineInputs : ep = i.ep /\ a = i.a
  /\ pc = "baseline"
  /\ idx = 1
  /\ probes = <<>>
  /\ loc = InitLoc
  /\ ret = NoReturn
  /\ AppIdle /\ ProbeIdle /\ PagerIdle /\ GenIdle

\* Phase 1: run_baseline, then the early exit
Baseline(o) ==
  /\ pc = "baseline"
  /\ Allowed(o)
  /\ LET baseline == call_endpoint(ep.method, o)
     IN  /\ probes' = Append(probes, Probe("baseline", ep.method, "token", "", "", baseline))
         /\ loc' = [loc EXCEPT !.baseline = baseline]
         /\ IF EarlyExit(baseline)
            THEN pc' = "done" /\ idx' = 1 /\ ret' = HaltedRecord(baseline, a)
            ELSE Advance("baseline") /\ ret' = ret
  /\ UNCHANGED <<ep, a, appVars, probeVars, pager, genVars>>

\* run_negative_tests
Negative(o) ==
  /\ pc = "negative"
  /\ Allowed(o)
  /\ LET result == call_endpoint(bad_method(ep), o)
     IN  /\ probes' = Append(probes, Probe("negative", bad_method(ep), "token", "", "", result))
         /\ loc' = [loc EXCEPT !.neg_results =
                      Append(@, [test |-> bad_method(ep), status_code |-> result.status_code,
                                 passed |-> result.status_code \in {405, 403, 404, 501}])]
  /\ Advance("negative")
  /\ UNCHANGED <<ep, a, ret, appVars, probeVars, pager, genVars>>

\* run_path_fuzzing, one probe
PathFuzz(o) ==
  /\ pc = "path_fuzz"
  /\ Allowed(o)
  /\ LET t == PathFuzzPlan(ep)[idx]
         res == call_endpoint(ep.method, o)
     IN  /\ probes' = Append(probes,
                      Probe("path_fuzz", ep.method, "token", t.param, t.value, res)
                        @@ [overrides |-> FuzzOverrides(a.param_overrides, t.param, t.value)])
         /\ loc' = [loc EXCEPT !.path_fuzz_results =
                      Append(@, [param |-> t.param, value |-> t.value,
                                 status_code |-> res.status_code,
                                 result |-> PathVerdict(res.status_code)])]
  /\ Advance("path_fuzz")
  /\ UNCHANGED <<ep, a, ret, appVars, probeVars, pager, genVars>>

\* run_enum_testing, one probe
EnumTest(o) ==
  /\ pc = "enum"
  /\ Allowed(o)
  /\ LET t == EnumPlan(ep)[idx]
         res == call_endpoint(ep.method, o)
     IN  /\ probes' = Append(probes, Probe("enum", ep.method, "token", t.param, t.value, res))
         /\ loc' = [loc EXCEPT !.enum_results =
                      Append(@, [param |-> t.param, value |-> t.value,
                                 status_code |-> res.status_code,
                                 passed |-> res.status_code \in {400, 422}])]
  /\ Advance("enum")
  /\ UNCHANGED <<ep, a, ret, appVars, probeVars, pager, genVars>>

\* run_combinatorial_tests, one combination of the window: build_test_url may
\* raise before the probe; "200 <= status_code < 300" raises TypeError after
\* it when the probe failed in transport (status_code is None)
Combinatorial(o) ==
  /\ pc = "comb"
  /\ Allowed(o)
  /\ LET test_params == CombPlan(ep, a)[idx]
         res == call_endpoint(ep.method, o)
     IN  IF BuildRaises(ep, test_params)
         THEN pc' = "raised" /\ UNCHANGED <<idx, probes, loc>>
         ELSE /\ probes' = Append(probes, Probe("comb", ep.method, "token", "", "", res))
              /\ IF res.status_code = NoStatus
                 THEN pc' = "raised" /\ UNCHANGED <<idx, loc>>
                 ELSE /\ loc' = [loc EXCEPT !.comb_results =
                                   Append(@, [status_code |-> res.status_code,
                                              passed |-> 200 <= res.status_code /\ res.status_code < 300,
                                              params_used |-> test_params])]
                      /\ Advance("comb")
  /\ UNCHANGED <<ep, a, ret, appVars, probeVars, pager, genVars>>

\* the granular fuzz loop, one probe
GranularFuzz(o) ==
  /\ pc = "gran_fuzz"
  /\ Allowed(o)
  /\ LET t == GranularPlan(ep, a)[idx]
         res == call_endpoint(ep.method, o)
     IN  /\ probes' = Append(probes, Probe("gran_fuzz", ep.method, "token", t.param, t.value, res))
         /\ loc' = [loc EXCEPT !.fuzz_results_list =
                      Append(@, [param |-> t.param, status_code |-> res.status_code,
                                 error |-> res.error])]
  /\ Advance("gran_fuzz")
  /\ UNCHANGED <<ep, a, ret, appVars, probeVars, pager, genVars>>

\* the auth tests: token only + credentials only when the endpoint has
\* username/password parameters, else run_auth_check + invalid token
AuthTests(o) ==
  /\ pc = "auth"
  /\ Allowed(o)
  /\ LET t == AuthPlan(ep)[idx]
         res == call_endpoint(ep.method, o)
         withRes == Put(loc.special_auth, t.param, res)
     IN  /\ probes' = Append(probes, Probe("auth", ep.method, t.value, t.param, "", res))
         /\ loc' = CASE t.param = "token_only" -> [loc EXCEPT !.special_auth = withRes]
                     [] t.param = "creds_only" ->
                          [loc EXCEPT !.special_auth = withRes, !.auth_result = res]
                     [] t.param = "auth_check" ->
                          [loc EXCEPT !.auth_result = res,
                                      !.special_auth = Put(@, "token_only", loc.baseline)]
                     [] t.param = "invalid_token" -> [loc EXCEPT !.special_auth = withRes]
  /\ Advance("auth")
  /\ UNCHANGED <<ep, a, ret, appVars, probeVars, pager, genVars>>

\* run_param_removal, one probe
ParamRemoval(o) ==
  /\ pc = "param_removal"
  /\ Allowed(o)
  /\ LET t == ParamPlan(ep, a)[idx]
         result == call_endpoint(ep.method, o)
     IN  /\ probes' = Append(probes, Probe("param_removal", ep.method, "token", t.param, t.value, result))
         /\ loc' = [loc EXCEPT !.param_results =
                      Append(@, [param |-> t.param,
                                 required_by_test |-> result.status_code /= 200 \/ result.error /= NoError,
                                 status_without |-> result.status_code])]
  /\ Advance("param_removal")
  /\ UNCHANGED <<ep, a, ret, appVars, probeVars, pager, genVars>>

\* run_empty_values, one probe
EmptyValues(o) ==
  /\ pc = "empty_values"
  /\ Allowed(o)
  /\ LET t == ParamPlan(ep, a)[idx]
         result == call_endpoint(ep.method, o)
     IN  /\ probes' = Append(probes, Probe("empty_values", ep.method, "token", t.param, "", result))
         /\ loc' = [loc EXCEPT !.empty_results =
                      Append(@, [param |-> t.param, status_empty |-> result.status_code,
                                 graceful |-> result.status_code \in {200, 400, 422}])]
  /\ Advance("empty_values")
  /\ UNCHANGED <<ep, a, ret, appVars, probeVars, pager, genVars>>

\* run_field_progression_test, one probe: the entry of a selector is appended
\* after its last probe (the empty probe r1, then the subset probe r2 if any)
FieldProgression(o) ==
  /\ pc = "field_progression"
  /\ Allowed(o)
  /\ LET t == FieldPlan(ep, a)[idx]
         r == call_endpoint(ep.method, o)
     IN  /\ probes' = Append(probes, Probe("field_progression", ep.method, "token", t.param, t.value, r))
         /\ loc' = IF t.value = "subset"
                   THEN [loc EXCEPT !.field_progression =
                           Append(@, [param |-> t.param, empty_status |-> loc.r1.status_code,
                                      subset |-> [present |-> TRUE, status_code |-> r.status_code]])]
                   ELSE IF idx < Len(FieldPlan(ep, a)) /\ FieldPlan(ep, a)[idx + 1].value = "subset"
                   THEN [loc EXCEPT !.r1 = r]
                   ELSE [loc EXCEPT !.field_progression =
                           Append(@, [param |-> t.param, empty_status |-> r.status_code,
                                      subset |-> [present |-> FALSE, status_code |-> NoStatus]])]
  /\ Advance("field_progression")
  /\ UNCHANGED <<ep, a, ret, appVars, probeVars, pager, genVars>>

\* the result dict, with the AI analysis when run_ai is set
Return(text) ==
  /\ pc = "return"
  /\ ret' = FullRecord(loc, ep, a, IF a.run_ai THEN text ELSE "None")
  /\ pc' = "done"
  /\ UNCHANGED <<ep, a, idx, probes, loc, appVars, probeVars, pager, genVars>>

NextPipeline ==
  \/ \E o \in Outcomes : Baseline(o)
  \/ \E o \in Outcomes : Negative(o)
  \/ \E o \in Outcomes : PathFuzz(o)
  \/ \E o \in Outcomes : EnumTest(o)
  \/ \E o \in Outcomes : Combinatorial(o)
  \/ \E o \in Outcomes : GranularFuzz(o)
  \/ \E o \in Outcomes : AuthTests(o)
  \/ \E o \in Outcomes : ParamRemoval(o)
  \/ \E o \in Outcomes : EmptyValues(o)
  \/ \E o \in Outcomes : FieldProgression(o)
  \/ \E text \in AiTexts : Return(text)

SpecPipeline == InitPipeline /\ [][NextPipeline]_vars

(***************************************************************************)
(* call_endpoint on its own: every method against every transport outcome  *)
(***************************************************************************)
Methods == {"GET", "POST", "PUT", "DELETE", "PATCH"}

Statuses == {200, 401, 404, 500}

\* body lengths on both sides of every preview limit
BodyLens ==
  {0, TextPreviewLimit + 1, AiTextPreviewLimit + 1, JsonPreviewLimit + 1,
   AiJsonPreviewLimit + 1}

Transports ==
  {ResponseWithBody(s, j, n) : s \in Statuses, j \in BOOLEAN, n \in BodyLens}
  \cup {Failure(k) : k \in {"ConnectionError", "ConnectTimeout", "ReadTimeout",
                            "RequestException"}}

InitProbe == PipelineIdle /\ AppIdle /\ ProbeIdle /\ PagerIdle /\ GenIdle

\* swagger_tester.call_endpoint(url, method, ...)
CallEndpoint(method, t) ==
  /\ probe_call' = [impl |-> "swagger_tester", method |-> method, t |-> t,
                    returned |-> t.kind = "response" \/ ErrorText(t) /= "uncaught"]
  /\ probe_result' = call_endpoint(method, t)
  /\ UNCHANGED <<pipeVars, appVars, pager, genVars>>

\* ai_api_tester.call_endpoint(url, ...)
AiCallEndpoint(t) ==
  /\ probe_call' = [impl |-> "ai_api_tester", method |-> "GET", t |-> t,
                    returned |-> t.kind = "response" \/ AiErrorText(t) /= "uncaught"]
  /\ probe_result' = ai_call_endpoint(t)
  /\ UNCHANGED <<pipeVars, appVars, pager, genVars>>

NextProbe ==
  \/ \E method \in Methods, t \in Transports : CallEndpoint(method, t)
  \/ \E t \in Transports : AiCallEndpoint(t)

SpecProbe == InitProbe /\ [][NextProbe]_vars

(***************************************************************************)
(* A client paging through run_combinatorial_tests in full mode: windows   *)
(* at offsets 0, limit, 2*limit, ... until total_count is reached          *)
(***************************************************************************)
\* inputs of the combination generator beyond those of the pipeline runs
CombVariants(e) ==
  Variants(e) \cup
  ( CASE e = EpItems ->
           { [ArgsBase EXCEPT !.param_overrides =
                                Overrides("category" :> StrV(<<"a", "a", "b">>) @@ "limit" :> StrV(<<"5", "6">>))],
             [ArgsBase EXCEPT !.param_overrides = Overrides("category" :> StrV(<<"a", "b">>)),
                              !.random_overrides = ("category" :> S("zz") @@ "limit" :> S("5")),
                              !.isolated_params = <<"category">>] }
      [] e = EpUser ->
           { [ArgsBase EXCEPT !.param_overrides = Overrides("id" :> StrV(<<"5", "6">>)),
                              !.random_overrides = ("fields" :> S("name"))] }
      [] e = EpSearch ->
           { [ArgsBase EXCEPT !.isolated_params = <<"active">>],
             [ArgsBase EXCEPT !.param_overrides = Overrides("sort" :> StrV(<<"asc", "desc">>)),
                              !.multi_params = {"sort"}] }
      [] OTHER -> {} )

InitComb ==
  /\ PipelineIdle /\ AppIdle /\ ProbeIdle /\ GenIdle
  /\ \E e \in Endpoints :
       \E v \in CombVariants(e), l \in 1..MaxLimit :
          pager = [pc |-> "paging", ep |-> e,
                   a |-> [v EXCEPT !.combinatorial_mode = "full", !.comb_limit = l],
                   offset |-> 0, pages |-> <<>>, totals |-> <<>>, again |-> <<>>]

\* one call of run_combinatorial_tests raises when a URL cannot be built or
\* when the probe at position fault of the window fails in transport
CallRaises(e, window, fault) ==
  \E k \in 1..Len(window) : BuildRaises(e, window[k]) \/ fault = k

\* the client after a page came back
AfterPage(p, window, total) ==
  [p EXCEPT !.pages = Append(@, window),
            !.totals = Append(@, total),
            !.offset = @ + p.a.comb_limit,
            !.pc = IF p.offset + p.a.comb_limit >= total THEN "done" ELSE "paging"]

\* run_combinatorial_tests(mode="full", offset=pager.offset, limit=comb_limit)
FetchPage(fault) ==
  /\ pager.pc = "paging"
  /\ pager' =
       IF CallRaises(pager.ep, CombPlan(pager.ep, [pager.a EXCEPT !.comb_offset = pager.offset]), fault)
       THEN [pager EXCEPT !.pc = "raised"]
       ELSE AfterPage(pager,
                      CombPlan(pager.ep, [pager.a EXCEPT !.comb_offset = pager.offset]),
                      total_count(pager.ep, pager.a))
  /\ UNCHANGED <<pipeVars, appVars, probeVars, genVars>>

\* the same window asked for a second time
RefetchPage(p, k) ==
  [p EXCEPT !.again =
     <<[page |-> k,
        results |-> CombPlan(p.ep, [p.a EXCEPT !.comb_offset = (k - 1) * p.a.comb_limit]),
        total_count |-> total_count(p.ep, p.a)]>>]

Refetch ==
  /\ pager.pc \in {"paging", "done"}
  /\ pager.again = <<>>
  /\ \E k \in 1..Len(pager.pages) : pager' = RefetchPage(pager, k)
  /\ UNCHANGED <<pipeVars, appVars, probeVars, genVars>>

NextComb ==
  \/ \E fault \in 0..MaxLimit : FetchPage(fault)
  \/ Refetch

SpecComb == InitComb /\ [][NextComb]_vars

(***************************************************************************)
(* The value pool builder and the combination generator on their own: one  *)
(* call of run_combinatorial_tests for every choice of overrides, fuzz     *)
(* values, inclusion filter, isolated list and multi set                   *)
(***************************************************************************)
\* a parameter the caller gives no value for
Absent == [t |-> "absent", v |-> <<>>]

\* the dict that holds the chosen values: an absent choice leaves no key
DictOf(choice) == [n \in {m \in DOMAIN choice : choice[m] /= Absent} |-> choice[n]]

\* the lists of distinct names over a set of names
ListsOver(names) ==
  {s \in UNION {[1..k -> names] : k \in 0..Cardinality(names)} : NoDup(s)}

\* the values the UI can send for a parameter: the first parameter of the
\* endpoint can also get a sample list with a repeated sample
UiChoices(e, name) ==
  IF name = e.params[1].name
  THEN {Absent, S("a"), StrV(<<"a", "b">>), StrV(<<"a", "a", "b">>)}
  ELSE {Absent, S("a"), StrV(<<"a", "b">>)}

\* the fuzz values: one for the first parameter, or none
FuzzChoices(e, name) == IF name = e.params[1].name THEN {Absent, S("zz")} ELSE {Absent}

\* one sample text per parameter name
UiDicts(e, names) ==
  {f \in [names -> UNION {UiChoices(e, n) : n \in names}] : \A n \in names : f[n] \in UiChoices(e, n)}

\* one fuzz value per parameter name
FuzzDicts(e, names) ==
  {f \in [names -> UNION {FuzzChoices(e, n) : n \in names}] : \A n \in names : f[n] \in FuzzChoices(e, n)}

\* the inclusion filters: none given, or a list of distinct parameter names
IncludeChoices(names) == {NoInclude} \cup {Include(s) : s \in ListsOver(names)}

\* the arguments of one call
GenArgs(e, names) ==
  { [ArgsBase EXCEPT !.param_overrides = Overrides(DictOf(ui)),
                     !.random_overrides = DictOf(fz),
                     !.multi_params = mp,
                     !.include_params = inc,
                     !.isolated_params = iso] :
      ui \in UiDicts(e, names),
      fz \in FuzzDicts(e, names),
      mp \in SUBSET names,
      inc \in IncludeChoices(names),
      iso \in ListsOver(names) }

GenEndpoints == {EpItems, EpUser, EpLogin, EpSearch}

InitGen ==
  /\ PipelineIdle /\ AppIdle /\ ProbeIdle /\ PagerIdle /\ ToolsIdle
  /\ built = [pc |-> "idle"]
  /\ \E e \in GenEndpoints :
       \E args \in GenArgs(e, Range(ParamNames(e))) :
          gen = [pc |-> "called", ep |-> e, a |-> args, pools |-> <<>>,
                 baseline_values |-> <<>>, combos |-> <<>>, total_count |-> 0]

\* run_combinatorial_tests up to total_count = len(all_combos_dicts)
Generated(g, pools, combos) ==
  [g EXCEPT !.pc = "generated", !.pools = pools, !.baseline_values = BaselineOf(pools),
            !.combos = combos, !.total_count = Len(combos)]

Generate ==
  /\ gen.pc = "called"
  /\ gen' = Generated(gen, parameter_pools(gen.ep, gen.a), all_combos_dicts(gen.ep, gen.a))
  /\ UNCHANGED <<pipeVars, appVars, probeVars, pager, built, toolVars>>

NextGen == Generate

SpecGen == InitGen /\ [][NextGen]_vars

(***************************************************************************)
(* build_test_url: the request built from an endpoint, an override         *)
(* mapping, a skip-set, an empty-set and an inclusion filter (SpecBuild).  *)
(* The path is kept as the value put in the place of each placeholder, the *)
(* query string as the dict handed to urlencode, the body as the JSON dict.*)
(***************************************************************************)
\* POST /orders/{order_id}?note= with a JSON body {item, qty, gift}
EpOrder ==
  [method |-> "POST", path |-> "/orders/{order_id}",
   params |-> << Param("order_id", "path", TRUE, "integer", S("1"), NoneV, <<>>),
                 Param("note", "query", FALSE, "string", S("hi"), NoneV, <<>>),
                 Param("item", "body", TRUE, "string", S("book"), NoneV, <<>>),
                 Param("qty", "body", FALSE, "integer", S("1"), NoneV, <<>>),
                 Param("gift", "body", FALSE, "boolean", S("true"), NoneV, <<>>) >>,
   body_props |-> <<"item", "qty", "gift">>, body_required |-> {"item"},
   body_schema |-> [n \in {"item", "qty", "gift"} |->
                      CASE n = "item" -> Prop("string", S("book"), NoneV)
                        [] n = "qty"  -> Prop("integer", NoneV, NoneV)
                        [] OTHER      -> Prop("boolean", NoneV, NoneV)]]

\* GET /users/{username}?verbose= : the path parameter is called username
EpProfile ==
  [method |-> "GET", path |-> "/users/{username}",
   params |-> << Param("username", "path", TRUE, "string", S("test"), NoneV, <<>>),
                 Param("verbose", "query", FALSE, "boolean", S("true"), NoneV, <<>>) >>,
   body_props |-> <<>>, body_required |-> {}, body_schema |-> <<>>]

\* the integer 1 of a JSON body
IntOne == [t |-> "int", v |-> <<1>>]

\* a placeholder "{name}" still standing in the path
Unsubstituted == [t |-> "placeholder", v |-> <<>>]

\* the placeholders of the declared path parameters
Placeholders(e) == {e.params[i].name : i \in {j \in 1..Len(e.params) : e.params[j].in = "path"}}

\* d[k] = x, nothing for a value that is left out
WithKey(d, k, x) == IF x = Absent THEN d ELSE Put(d, k, x)

\* val = str(p["example"]) if p["example"] else "test"; an override replaces it
PathValue(p, param_overrides) ==
  IF param_overrides.given /\ p.name \in DOMAIN param_overrides.m
  THEN param_overrides.m[p.name]
  ELSE IF Truthy(p.example) THEN p.example ELSE S("test")

\* path = path.replace("{" + name + "}", val): TypeError unless val is a str
PathParam(acc, p, param_overrides) ==
  IF PathValue(p, param_overrides).t /= "str"
  THEN [acc EXCEPT !.raised = TRUE]
  ELSE [acc EXCEPT !.path = Put(acc.path, p.name, PathValue(p, param_overrides))]

\* the value of a query parameter, Absent when it is left out
QueryValue(p, param_overrides, empty_params) ==
  IF p.name \in empty_params THEN S("")
  ELSE IF param_overrides.given
  THEN IF p.name \in DOMAIN param_overrides.m
       THEN IF IsNone(param_overrides.m[p.name]) THEN Absent ELSE param_overrides.m[p.name]
       ELSE IF p.required THEN ExampleOrDefault(p) ELSE Absent
  ELSE IF ~IsNone(p.example) THEN p.example
  ELSE IF ~IsNone(p.default) THEN p.default
  ELSE Absent

\* one turn of: for p in endpoint["params"]
BuildParam(acc, p, param_overrides, skip_params, empty_params, include_params) ==
  IF p.name \in skip_params THEN acc
  ELSE IF include_params.given /\ ~InSeq(p.name, include_params.names) /\ p.in /= "path"
  THEN acc
  ELSE IF p.in = "path" THEN PathParam(acc, p, param_overrides)
  ELSE IF p.in = "query"
  THEN [acc EXCEPT !.query_params =
                      WithKey(acc.query_params, p.name, QueryValue(p, param_overrides, empty_params))]
  ELSE acc

RECURSIVE BuildParams(_, _, _, _, _, _)
BuildParams(acc, params, param_overrides, skip_params, empty_params, include_params) ==
  IF params = <<>> THEN acc
  ELSE BuildParams(BuildParam(acc, Head(params), param_overrides, skip_params,
                              empty_params, include_params),
                   Tail(params), param_overrides, skip_params, empty_params, include_params)

\* val = prop.get("example") or prop.get("default"), else a value by type
BodyFallback(prop) ==
  IF ~IsNone(OrElse(prop.example, prop.default)) THEN OrElse(prop.example, prop.default)
  ELSE IF prop.type = "string" THEN S("test")
  ELSE IF prop.type = "integer" THEN IntOne
  ELSE Absent

\* the value of a body property, Absent when it is left out
BodyValue(name, prop, param_overrides, required_body_fields) ==
  IF param_overrides.given
  THEN IF name \in DOMAIN param_overrides.m
       THEN IF IsNone(param_overrides.m[name]) THEN Absent ELSE param_overrides.m[name]
       ELSE IF name \in required_body_fields THEN BodyFallback(prop) ELSE Absent
  ELSE BodyFallback(prop)

\* for name, prop in props.items()
RECURSIVE JsonBody(_, _, _, _, _)
JsonBody(json_body, names, e, param_overrides, include_params) ==
  IF names = <<>> THEN json_body
  ELSE JsonBody(IF include_params.given /\ ~InSeq(Head(names), include_params.names)
                THEN json_body
                ELSE WithKey(json_body, Head(names),
                             BodyValue(Head(names), e.body_schema[Head(names)],
                                       param_overrides, e.body_required)),
                Tail(names), e, param_overrides, include_params)

\* what build_test_url hands back, or the exception it leaves by
Request(acc, json_body) ==
  IF acc.raised
  THEN [raised |-> TRUE, path |-> <<>>, query_params |-> EmptyDict, json_body |-> EmptyDict]
  ELSE [raised |-> FALSE, path |-> acc.path, query_params |-> acc.query_params,
        json_body |-> json_body]

build_test_url(e, param_overrides, skip_params, empty_params, include_params) ==
  Request(BuildParams([raised |-> FALSE, path |-> [n \in Placeholders(e) |-> Unsubstituted],
                       query_params |-> EmptyDict],
                      e.params, param_overrides, skip_params, empty_params, include_params),
          JsonBody(EmptyDict, e.body_props, e, param_overrides, include_params))

\* the endpoints built for
BuildEndpoints == {EpItems, EpUser, EpLogin, EpSearch, EpOrder, EpProfile}

\* the override mappings of the front end: none, or a text or null for some names
BaseOverrides(e) ==
  {NoOverrides} \cup
  {Overrides(DictOf(c)) : c \in [Range(ParamNames(e)) -> {Absent, S("v"), NoneV}]}

\* the inclusion filters: none, or the checked names in declaration order
BuildIncludes(e) ==
  {NoInclude} \cup
  {Include(SelectSeq(ParamNames(e), LAMBDA n : n \in c)) : c \in SUBSET Range(ParamNames(e))}

\* removable_params / emptyable_params: query parameters, then body properties
QueryOrBody(e) ==
  [i \in 1..Len(SelectSeq(e.params, LAMBDA p : p.in = "query")) |->
     SelectSeq(e.params, LAMBDA p : p.in = "query")[i].name] \o e.body_props

\* if include_params is not None and name not in include_params: continue
Audited(e, include_params) ==
  {n \in Range(QueryOrBody(e)) : ~(include_params.given /\ ~InSeq(n, include_params.names))}

\* the arguments run_combinatorial_tests is called with
CombArgs(b) ==
  [ArgsBase EXCEPT !.param_overrides = Overrides(b.base_overrides.m),
                   !.include_params = b.include_params]

InitBuild ==
  /\ PipelineIdle /\ AppIdle /\ ProbeIdle /\ PagerIdle /\ ToolsIdle
  /\ gen = [pc |-> "idle"]
  /\ \E e \in BuildEndpoints : \E o \in BaseOverrides(e) : \E inc \in BuildIncludes(e) :
        built = [pc |-> "start", ep |-> e, base_overrides |-> o, include_params |-> inc]

\* a call that takes the query parameters out of the endpoint it is given
ArgumentsAfterBad(e, param_overrides, skip_params, empty_params, include_params) ==
  [endpoint |-> [e EXCEPT !.params = SelectSeq(e.params, LAMBDA p : p.in /= "query")],
   param_overrides |-> param_overrides, skip_params |-> skip_params,
   empty_params |-> empty_params, include_params |-> include_params]

\* the objects handed to build_test_url as the call leaves them: path,
\* query_params and json_body are locals, nothing is stored into an argument
ArgumentsAfter(e, param_overrides, skip_params, empty_params, include_params) ==
  [endpoint |-> e, param_overrides |-> param_overrides, skip_params |-> skip_params,
   empty_params |-> empty_params, include_params |-> include_params]

\* one call of build_test_url and what it gave
Built(b, caller, param_overrides, skip_params, empty_params, include_params) ==
  [pc |-> "built", caller |-> caller, ep |-> b.ep,
   param_overrides |-> param_overrides, skip_params |-> skip_params,
   empty_params |-> empty_params, include_params |-> include_params,
   res |-> build_test_url(b.ep, param_overrides, skip_params, empty_params, include_params),
   after |-> ArgumentsAfter(b.ep, param_overrides, skip_params, empty_params, include_params)]

\* a second call with the same objects, as the first call left them
Rebuilt(b) ==
  [b EXCEPT !.pc = "rebuilt",
            !.res = [first |-> b.res,
                     second |-> build_test_url(b.after.endpoint, b.after.param_overrides,
                                               b.after.skip_params, b.after.empty_params,
                                               b.after.include_params)],
            !.after = ArgumentsAfter(b.after.endpoint, b.after.param_overrides,
                                     b.after.skip_params, b.after.empty_params,
                                     b.after.include_params)]

\* test_single_endpoint: the Baseline request
BuildBaseline ==
  /\ built.pc = "start"
  /\ built' = Built(built, "baseline", built.base_overrides, {}, {}, built.include_params)
  /\ UNCHANGED <<pipeVars, appVars, probeVars, pager, gen, toolVars>>

\* run_param_removal: the request without one parameter
BuildRemoval ==
  /\ built.pc = "start"
  /\ \E name \in Audited(built.ep, built.include_params) :
        built' = Built(built, "removal", built.base_overrides, {name}, {}, built.include_params)
  /\ UNCHANGED <<pipeVars, appVars, probeVars, pager, gen, toolVars>>

\* run_empty_values: the request with one parameter empty
BuildEmpty ==
  /\ built.pc = "start"
  /\ \E name \in Audited(built.ep, built.include_params) :
        built' = Built(built, "empty", built.base_overrides, {}, {name}, built.include_params)
  /\ UNCHANGED <<pipeVars, appVars, probeVars, pager, gen, toolVars>>

\* test_single_endpoint: the token-only request of an endpoint with credentials
BuildTokenOnly ==
  /\ built.pc = "start"
  /\ Range(ParamNames(built.ep)) \cap {"username", "password"} /= {}
  /\ built' = Built(built, "token_only", built.base_overrides, {"username", "password"}, {},
                    NoInclude)
  /\ UNCHANGED <<pipeVars, appVars, probeVars, pager, gen, toolVars>>

\* run_combinatorial_tests: the request of one combination
BuildCombination ==
  /\ built.pc = "start"
  /\ \E k \in 1..Len(all_combos_dicts(built.ep, CombArgs(built))) :
        built' = Built(built, "combination",
                       Overrides(all_combos_dicts(built.ep, CombArgs(built))[k]),
                       {}, {}, NoInclude)
  /\ UNCHANGED <<pipeVars, appVars, probeVars, pager, gen, toolVars>>

\* what call_endpoint puts on the wire for a built request: the body is
\* "json_body or {}" for POST, PUT and PATCH, and there is none otherwise
OnWire(method, request, headers) ==
  [method |-> method, path |-> request.path, query_params |-> request.query_params,
   body |-> IF method \in {"POST", "PUT", "PATCH"} THEN request.json_body ELSE EmptyDict,
   headers |-> headers]

\* run_auth_check(test_url, method, config): the URL of the Baseline and no
\* json_body argument
WithoutBody(request) == [request EXCEPT !.json_body = EmptyDict]

\* the request of the auth result: with username/password parameters it is
\* built again from the overrides alone, else run_auth_check sends test_url
AuthRequest(e, param_overrides, baseline_request) ==
  IF has_creds(e)
  THEN build_test_url(e, param_overrides, {}, {}, NoInclude)
  ELSE WithoutBody(baseline_request)

\* test_single_endpoint up to the auth result: the Baseline request, then
\* the request sent without authorization headers
AuthProbes(b, baseline_request) ==
  IF baseline_request.raised
  THEN [pc |-> "raised", caller |-> "auth", ep |-> b.ep]
  ELSE [pc |-> "probed", caller |-> "auth", ep |-> b.ep,
        param_overrides |-> b.base_overrides, include_params |-> b.include_params,
        baseline |-> OnWire(b.ep.method, baseline_request, "token"),
        auth |-> OnWire(b.ep.method,
                        AuthRequest(b.ep, b.base_overrides, baseline_request), "none")]

BuildAuthCheck ==
  /\ built.pc = "start"
  /\ built' = AuthProbes(built, build_test_url(built.ep, built.base_overrides, {}, {},
                                               built.include_params))
  /\ UNCHANGED <<pipeVars, appVars, probeVars, pager, gen, toolVars>>

\* the same request built once more (the credential request of
\* test_single_endpoint repeats the Baseline call)
BuildAgain ==
  /\ built.pc = "built"
  /\ built' = Rebuilt(built)
  /\ UNCHANGED <<pipeVars, appVars, probeVars, pager, gen, toolVars>>

NextBuild ==
  \/ BuildAgain
  \/ BuildAuthCheck
  \/ BuildBaseline
  \/ BuildRemoval
  \/ BuildEmpty
  \/ BuildTokenOnly
  \/ BuildCombination

SpecBuild == InitBuild /\ [][NextBuild]_vars

(***************************************************************************)
(* Endpoint discovery (SpecDisc): fetch_all_endpoints, which fills the     *)
(* endpoint list of the UI, and the discovery of the command-line main.    *)
(* What the services answer is fixed when discovery starts: one answer for *)
(* the swagger-config of each service, one for each contract document.     *)
(***************************************************************************)
\* config["services"], in order; main knows the first one only (swagger_base_url)
Services == <<"A", "B">>

\* the groups the swagger-config of a service lists, in order
GroupsOf(svc) == IF svc = "A" THEN <<"g1", "g2">> ELSE <<"h1">>

\* an endpoint as discovery carries it
Discovered(svc, group, method, path) ==
  [method |-> method, path |-> path, group |-> group, service_name |-> svc]

\* the operations of each contract document: g1 and g2 overlap in GET /b
Operations(svc, group) ==
  CASE group = "g1" -> << Discovered(svc, group, "GET", "/a"), Discovered(svc, group, "GET", "/b") >>
    [] group = "g2" -> << Discovered(svc, group, "GET", "/b"), Discovered(svc, group, "POST", "/b") >>
    [] OTHER        -> << Discovered(svc, group, "GET", "/c") >>

\* answers to GET /v3/api-docs/swagger-config: 200 with the urls, another
\* status, no answer, or a 200 whose JSON is not the expected object
ConfigAnswers == {"ok", "non200", "error", "malformed"}

\* answers to the GET of a contract document: 200 with a document, another
\* status, no answer, a 200 that is not JSON, a 200 with the empty
\* document {}, or a 200 with JSON that parse_endpoints cannot walk
DocAnswers == {"ok", "non200", "error", "notjson", "empty", "malformed"}

Groups == {"g1", "g2", "h1"}

Worlds ==
  {[config |-> c, doc |-> d] :
     c \in [Range(Services) -> ConfigAnswers], d \in [Groups -> DocAnswers]}

\* fetch_swagger_config: the groups, [] on any failure
fetch_swagger_config(world, svc) ==
  IF world.config[svc] = "ok" THEN GroupsOf(svc) ELSE <<>>

\* fetch_openapi_spec: the document, None on any failure
fetch_openapi_spec(world, group) ==
  CASE world.doc[group] \in {"ok", "empty", "malformed"} -> world.doc[group]
    [] OTHER -> "None"

\* if spec: ({} and None are falsy)
SpecTruthy(spec) == spec \in {"ok", "malformed"}

\* parse_endpoints raises on a document it cannot walk (paths: null, ...)
ParseRaises(spec) == spec = "malformed"

\* main: remove duplicates (same path+method across groups), first one kept
unique_endpoints(all_endpoints) ==
  SelectSeq([i \in 1..Len(all_endpoints) |->
               [ep |-> all_endpoints[i],
                first |-> \A j \in 1..(i - 1) :
                             \/ all_endpoints[j].method /= all_endpoints[i].method
                             \/ all_endpoints[j].path /= all_endpoints[i].path]],
            LAMBDA e : e.first)

Endpoint(entries) == [i \in 1..Len(entries) |-> entries[i].ep]

\* modes: "ui" is fetch_all_endpoints, "cli" is main
InitDisc ==
  /\ PipelineIdle /\ AppIdle /\ ProbeIdle /\ PagerIdle
  /\ gen = [pc |-> "idle"] /\ built = [pc |-> "idle"]
  /\ parsed = [pc |-> "idle"] /\ gemini = [pc |-> "idle"]
  /\ \E mode \in {"ui", "cli"} : \E w \in Worlds :
        /\ mode = "cli" => (w.config["B"] = "ok" /\ w.doc["h1"] = "ok")
        /\ disc = [pc |-> "service", mode |-> mode, world |-> w, s |-> 1, g |-> 1,
                   groups |-> <<>>, all_endpoints |-> <<>>]

\* groups = fetch_swagger_config(...); main exits when there is none
FetchConfig ==
  /\ disc.pc = "service"
  /\ disc.s <= Len(Services)
  /\ disc' = IF disc.mode = "cli" /\ fetch_swagger_config(disc.world, Services[disc.s]) = <<>>
             THEN [disc EXCEPT !.pc = "exit"]
             ELSE [disc EXCEPT !.pc = "group", !.g = 1,
                               !.groups = fetch_swagger_config(disc.world, Services[disc.s])]
  /\ UNCHANGED <<pipeVars, appVars, probeVars, pager, gen, built, parsed, gemini>>

\* one turn of "for group in groups": fetch, parse, extend.  An exception of
\* parse_endpoints is caught by the try of fetch_all_endpoints around the
\* whole service; main has no try
FetchSpec ==
  /\ disc.pc = "group"
  /\ disc.g <= Len(disc.groups)
  /\ disc' =
       IF ~SpecTruthy(fetch_openapi_spec(disc.world, disc.groups[disc.g]))
       THEN [disc EXCEPT !.g = disc.g + 1]
       ELSE IF ParseRaises(fetch_openapi_spec(disc.world, disc.groups[disc.g]))
       THEN IF disc.mode = "cli" THEN [disc EXCEPT !.pc = "raised"]
            ELSE [disc EXCEPT !.pc = "service", !.s = disc.s + 1]
       ELSE [disc EXCEPT !.g = disc.g + 1,
                         !.all_endpoints = disc.all_endpoints
                              \o Operations(Services[disc.s], disc.groups[disc.g])]
  /\ UNCHANGED <<pipeVars, appVars, probeVars, pager, gen, built, parsed, gemini>>

\* the groups of a service are done: fetch_all_endpoints takes the next service
NextService ==
  /\ disc.pc = "group"
  /\ disc.g > Len(disc.groups)
  /\ disc.mode = "ui"
  /\ disc' = [disc EXCEPT !.pc = "service", !.s = disc.s + 1]
  /\ UNCHANGED <<pipeVars, appVars, probeVars, pager, gen, built, parsed, gemini>>

\* fetch_all_endpoints: return all_endpoints
ReturnAll ==
  /\ disc.pc = "service"
  /\ disc.s > Len(Services)
  /\ disc' = [disc EXCEPT !.pc = "returned"]
  /\ UNCHANGED <<pipeVars, appVars, probeVars, pager, gen, built, parsed, gemini>>

\* main: remove duplicates; exit when nothing is left to test
RemoveDuplicates ==
  /\ disc.pc = "group"
  /\ disc.g > Len(disc.groups)
  /\ disc.mode = "cli"
  /\ disc' = IF unique_endpoints(disc.all_endpoints) = <<>>
             THEN [disc EXCEPT !.pc = "exit", !.all_endpoints = <<>>]
             ELSE [disc EXCEPT !.pc = "returned",
                               !.all_endpoints = Endpoint(unique_endpoints(disc.all_endpoints))]
  /\ UNCHANGED <<pipeVars, appVars, probeVars, pager, gen, built, parsed, gemini>>

NextDisc ==
  \/ FetchConfig
  \/ FetchSpec
  \/ NextService
  \/ ReturnAll
  \/ RemoveDuplicates

SpecDisc == InitDisc /\ [][NextDisc]_vars

(***************************************************************************)
(* parse_endpoints, for one operation of a contract document (SpecParse):  *)
(* the declared parameters, then the properties of the JSON request body   *)
(* flattened into the same list.  A key the document leaves out is Absent, *)
(* a key it sets to null is None.                                          *)
(***************************************************************************)
\* a declared parameter: p and p["schema"]
RawParam(name, where, example, type, schema_example, default, enum) ==
  [name |-> name, in |-> where, required |-> where = "path", example |-> example,
   schema |-> [type |-> type, example |-> schema_example, default |-> default, enum |-> enum]]

\* a property of the request body schema
RawProp(name, type, example, default, enum) ==
  [name |-> name, type |-> type, example |-> example, default |-> default, enum |-> enum]

\* type_defaults.get(type, "test")
TypeDefault(type) ==
  CASE type = "string"  -> S("test")
    [] type = "integer" -> S("1")
    [] type = "number"  -> S("1.0")
    [] type = "boolean" -> S("true")
    [] type = "array"   -> S("test")
    [] OTHER            -> S("test")

\* the example of a declared parameter (lines 132-150)
ParamExample(p) ==
  IF p.example /= Absent THEN p.example
  ELSE IF p.schema.example /= Absent THEN p.schema.example
  ELSE IF ~IsNone(p.schema.default) THEN p.schema.default
  ELSE IF p.schema.enum /= <<>> THEN S(p.schema.enum[1])
  ELSE TypeDefault(p.schema.type)

\* param_info of a declared parameter
ParamInfo(p) ==
  Param(p.name, p.in, p.required, p.schema.type, ParamExample(p), p.schema.default,
        p.schema.enum)

\* the example of a flattened body property (lines 189-195)
PropExample(d) ==
  IF Truthy(OrElse(d.example, d.default)) THEN OrElse(d.example, d.default)
  ELSE TypeDefault(d.type)

\* param_info of a body property
PropInfo(d, required_fields) ==
  Param(d.name, "body", d.name \in required_fields, d.type, PropExample(d), d.default, d.enum)

\* for p_name, p_details in props.items(): skip a name already in params
RECURSIVE FlattenBody(_, _, _)
FlattenBody(params, props, required_fields) ==
  IF props = <<>> THEN params
  ELSE FlattenBody(IF \E i \in 1..Len(params) : params[i].name = Head(props).name
                   THEN params
                   ELSE Append(params, PropInfo(Head(props), required_fields)),
                   Tail(props), required_fields)

\* the params list of the operation
parse_params(op) ==
  FlattenBody([i \in 1..Len(op.parameters) |-> ParamInfo(op.parameters[i])],
              op.properties, op.required)

\* the declared parameter whose example rules are explored in full
FirstParams ==
  {RawParam("id", "query", ex, ty, sx, df, en) :
     ex \in {Absent, NoneV, S("ex")}, ty \in {"string", "integer", "boolean", "object"},
     sx \in {Absent, S("sx")}, df \in {NoneV, S("df")}, en \in {<<>>, <<"e1", "e2">>}}

\* what the operation declares besides: nothing, the same name in another
\* location, or another name
MoreParams ==
  { <<>>,
    << RawParam("id", "path", Absent, "integer", Absent, NoneV, <<>>) >>,
    << RawParam("trace", "header", Absent, "string", Absent, NoneV, <<>>) >> }

\* the properties of the request body: none, or one
BodyProps ==
  { <<>> } \cup
  { << RawProp(n, ty, ex, df, en) >> :
      n \in {"id", "item"}, ty \in {"string", "integer", "array"}, ex \in {NoneV, S("ex")},
      df \in {NoneV, S("df")}, en \in {<<>>, <<"e1", "e2">>} }

RawOperations ==
  {[parameters |-> <<p>> \o more, properties |-> props, required |-> fields] :
     p \in FirstParams, more \in MoreParams, props \in BodyProps, fields \in {{}, {"item"}}}

InitParse ==
  /\ PipelineIdle /\ AppIdle /\ ProbeIdle /\ PagerIdle
  /\ gen = [pc |-> "idle"] /\ built = [pc |-> "idle"]
  /\ disc = [pc |-> "idle"] /\ gemini = [pc |-> "idle"]
  /\ \E op \in RawOperations : parsed = [pc |-> "read", op |-> op, params |-> <<>>]

\* parse_endpoints on the operation
Parse ==
  /\ parsed.pc = "read"
  /\ parsed' = [parsed EXCEPT !.pc = "parsed", !.params = parse_params(parsed.op)]
  /\ UNCHANGED <<pipeVars, appVars, probeVars, pager, gen, built, disc, gemini>>

NextParse == Parse

SpecParse == InitParse /\ [][NextParse]_vars

(***************************************************************************)
(* ask_gemini (swagger_tester.py and ai_api_tester.py): the models in      *)
(* their listed order, a bounded number of attempts per model.  One step   *)
(* is one requests.post with what follows it in the loop body; the post    *)
(* has a timeout and the sleep after a 429 is finite, so every step ends.  *)
(***************************************************************************)
GEMINI_MODELS == <<"gemini-2.5-flash-lite", "gemini-2.5-flash", "gemini-2.5-pro">>

\* for attempt in range(3) / max_retries = 3
max_retries == 3

\* the two copies of ask_gemini
AskFiles == {"swagger_tester", "ai_api_tester"}

HttpReply(status_code, body) == [kind |-> "response", status_code |-> status_code, body |-> body]

Raised(exception) == [kind |-> exception, status_code |-> NoStatus, body |-> "none"]

\* what one requests.post may give: a 200 whose JSON holds the text, holds
\* null in its place or does not have the expected shape; another status; a
\* timeout; any other exception (connection refused, DNS failure)
GeminiReplies ==
  { HttpReply(200, "text"), HttpReply(200, "null_text"), HttpReply(200, "malformed"),
    HttpReply(429, "error"), HttpReply(404, "error"), HttpReply(500, "error"),
    Raised("Timeout"), Raised("ConnectionError") }

\* f"[Gemini error] {e}" / f"[Gemini request failed] {str(e)}"
ErrorMessage(file) ==
  IF file = "swagger_tester" THEN S("[Gemini error]") ELSE S("[Gemini request failed]")

\* the return after the loops
ExhaustedMessage(file) ==
  IF file = "swagger_tester" THEN S("[All Gemini models exhausted] Check API key/quota.")
  ELSE S("[All Gemini models exhausted] Could not get AI analysis. Check your API key quota at https://ai.dev/rate-limit")

\* data["candidates"][0]["content"]["parts"][0]["text"] of a 200 response; a
\* body without that shape raises inside the try and is caught by
\* "except Exception"
ResponseText(file, reply) ==
  CASE reply.body = "text"      -> S("analysis")
    [] reply.body = "null_text" -> NoneV
    [] OTHER                    -> ErrorMessage(file)

\* a loop body that retries the model after a 404
AfterReplyBad(reply) ==
  CASE reply.kind = "Timeout"     -> "continue"
    [] reply.kind /= "response"   -> "return"
    [] reply.status_code = 200    -> "return"
    [] reply.status_code \in {429, 404} -> "continue"
    [] OTHER                      -> "break"

\* the branch of the loop body: return, continue (same model, next attempt)
\* or break (next model)
AfterReply(reply) ==
  CASE reply.kind = "Timeout"     -> "continue"
    [] reply.kind /= "response"   -> "return"
    [] reply.status_code = 200    -> "return"
    [] reply.status_code = 429    -> "continue"
    [] OTHER                      -> "break"

\* time.sleep(2 ** (attempt + 1)) after a 429; attempt counts from 0
Wait(reply, attempt) ==
  IF reply.kind = "response" /\ reply.status_code = 429 THEN 2 ^ (attempt + 1) ELSE 0

\* where the loops stand after the branch: the next (model, attempt), or the
\* end of both loops
Proceed(g, branch) ==
  IF branch = "continue" /\ g.attempt + 1 < max_retries
  THEN [g EXCEPT !.attempt = g.attempt + 1]
  ELSE IF g.model < Len(GEMINI_MODELS)
  THEN [g EXCEPT !.model = g.model + 1, !.attempt = 0]
  ELSE [g EXCEPT !.pc = "returned", !.ret = ExhaustedMessage(g.file)]

\* one iteration of the inner loop on the reply
ask_gemini(g, reply) ==
  LET h == [g EXCEPT !.log = Append(g.log, [model |-> GEMINI_MODELS[g.model],
                                             attempt |-> g.attempt, reply |-> reply]),
                     !.slept = g.slept + Wait(reply, g.attempt)]
  IN  IF AfterReply(reply) = "return"
      THEN [h EXCEPT !.pc = "returned",
                     !.ret = IF reply.kind = "response" THEN ResponseText(g.file, reply)
                             ELSE ErrorMessage(g.file)]
      ELSE Proceed(h, AfterReply(reply))

InitAsk ==
  /\ PipelineIdle /\ AppIdle /\ ProbeIdle /\ PagerIdle
  /\ gen = [pc |-> "idle"] /\ built = [pc |-> "idle"]
  /\ disc = [pc |-> "idle"] /\ parsed = [pc |-> "idle"]
  /\ \E file \in AskFiles :
       gemini = [pc |-> "post", file |-> file, model |-> 1, attempt |-> 0,
                 log |-> <<>>, slept |-> 0, ret |-> NoneV]

\* requests.post(url, json=payload, timeout=60) and the rest of the iteration
Post(reply) ==
  /\ gemini.pc = "post"
  /\ gemini' = ask_gemini(gemini, reply)
  /\ UNCHANGED <<pipeVars, appVars, probeVars, pager, gen, built, disc, parsed>>

NextAsk == \E reply \in GeminiReplies : Post(reply)

\* every post ends (timeout=60) and every sleep is finite: a call that has
\* not returned takes its next step
SpecAsk == InitAsk /\ [][NextAsk]_vars /\ WF_vars(NextAsk)

(***************************************************************************)
(* app.py: the request handlers that share CACHED_ENDPOINTS.  The server   *)
(* handles each request on a thread of its own, so handlers interleave at  *)
(* every network call.                                                     *)
(***************************************************************************)
\* requests in flight at once
MaxRequests == 2

\* endpoints a discovery can return
MaxEndpoints == 1

Threads == 1..MaxRequests

Handlers ==
  {"get_endpoints", "run_test", "ai_suggest_tests", "ai_execute_and_verify", "jira_scope"}

\* data.get('index'): missing, or an integer
NoIndex == [present |-> FALSE, i |-> 0]

Index(i) == [present |-> TRUE, i |-> i]

Indices == {NoIndex} \cup {Index(i) : i \in (0 - 1)..MaxEndpoints}

\* what a request carries: the handler, the index, and whether the other
\* data the handler requires (baseline, test_case, issue_id) is there; the
\* requests to the two AI handlers always carry their baseline and test case
Requests ==
  {[handler |-> "get_endpoints", index |-> NoIndex, data |-> TRUE]}
  \cup {[handler |-> "run_test", index |-> i, data |-> TRUE] : i \in Indices}
  \cup {[handler |-> h, index |-> i, data |-> TRUE] :
          h \in {"ai_suggest_tests", "ai_execute_and_verify"}, i \in {NoIndex, Index(0)}}
  \cup {[handler |-> "jira_scope", index |-> NoIndex, data |-> d] : d \in BOOLEAN}

\* fetch_all_endpoints never raises on a well-formed config: a service that
\* cannot be reached contributes nothing, so the list can be empty
DiscoveryResults == {[k \in 1..n |-> k] : n \in 0..MaxEndpoints}

IdleRequest ==
  [handler |-> "none", index |-> NoIndex, data |-> TRUE, pc |-> "idle",
   netcalls |-> <<>>, seen |-> 0, resp |-> "none"]

InitApp ==
  /\ PipelineIdle /\ ProbeIdle /\ PagerIdle /\ GenIdle
  /\ CACHED_ENDPOINTS = <<>>
  /\ req = [t \in Threads |-> IdleRequest]
  /\ discoveries = 0
  /\ populations = 0

\* an index check that lets the index len(CACHED_ENDPOINTS) through
InvalidIndexBad(index, len) == ~index.present \/ ~(0 <= index.i /\ index.i <= len)

\* endpoint_index is None or not (0 <= endpoint_index < len(CACHED_ENDPOINTS))
InvalidIndex(index, len) == ~index.present \/ ~(0 <= index.i /\ index.i < len)

\* the 400 answers of the handlers
Rejection(handler) ==
  CASE handler = "run_test" -> "Invalid endpoint index"
    [] handler = "ai_suggest_tests" -> "Invalid endpoint index or missing baseline"
    [] handler = "ai_execute_and_verify" -> "Missing required data or invalid index"
    [] OTHER -> "Missing Jira Issue ID"

\* the validation between the cache check and the work of a handler
Rejected(r, len) ==
  CASE r.handler = "run_test" -> InvalidIndex(r.index, len)
    [] r.handler \in {"ai_suggest_tests", "ai_execute_and_verify"} ->
         ~r.data \/ InvalidIndex(r.index, len)
    [] OTHER -> FALSE

\* the network calls of the work of a handler
Work(handler) ==
  CASE handler = "run_test" -> <<"probe">>
    [] handler = "ai_suggest_tests" -> <<"gemini">>
    [] handler = "ai_execute_and_verify" -> <<"probe", "gemini">>
    [] OTHER -> <<"jira", "gemini">>

\* a request arrives; jira_scope checks issue_id before anything else
Receive(t, r) ==
  /\ req[t].pc = "idle"
  /\ req' = [req EXCEPT ![t] =
       IF r.handler = "jira_scope" /\ ~r.data
       THEN [IdleRequest EXCEPT !.handler = r.handler, !.index = r.index, !.data = r.data,
                                !.pc = "done", !.resp = Rejection(r.handler)]
       ELSE [IdleRequest EXCEPT !.handler = r.handler, !.index = r.index, !.data = r.data,
                                !.pc = "check"]]
  /\ UNCHANGED <<CACHED_ENDPOINTS, discoveries, populations, pipeVars, probeVars, pager, genVars>>

\* if not CACHED_ENDPOINTS: ... fetch_all_endpoints(CONFIG) is called
CheckCache(t) ==
  /\ req[t].pc = "check"
  /\ IF CACHED_ENDPOINTS = <<>>
     THEN /\ req' = [req EXCEPT ![t].pc = "fetch", ![t].netcalls = Append(@, "discovery")]
          /\ discoveries' = discoveries + 1
     ELSE /\ req' = [req EXCEPT ![t].pc = "validate"]
          /\ UNCHANGED discoveries
  /\ UNCHANGED <<CACHED_ENDPOINTS, populations, pipeVars, probeVars, pager, genVars>>

\* CACHED_ENDPOINTS = fetch_all_endpoints(CONFIG): the fetch returns
Populate(t, found) ==
  /\ req[t].pc = "fetch"
  /\ CACHED_ENDPOINTS' = found
  /\ populations' = populations + 1
  /\ req' = [req EXCEPT ![t].pc = "validate"]
  /\ UNCHANGED <<discoveries, pipeVars, probeVars, pager, genVars>>

\* the length of the list a handler that takes an index checks it against
SeenLen(handler, len) == IF handler = "get_endpoints" \/ handler = "jira_scope" THEN 0 ELSE len

\* the index check (get_endpoints answers with the list here)
Validate(t) ==
  /\ req[t].pc = "validate"
  /\ req' = [req EXCEPT ![t] =
       IF req[t].handler = "get_endpoints"
       THEN [@ EXCEPT !.pc = "done", !.resp = "endpoints"]
       ELSE IF Rejected(req[t], Len(CACHED_ENDPOINTS))
       THEN [@ EXCEPT !.pc = "done", !.resp = Rejection(req[t].handler),
                      !.seen = SeenLen(req[t].handler, Len(CACHED_ENDPOINTS))]
       ELSE [@ EXCEPT !.pc = "work",
                      !.seen = SeenLen(req[t].handler, Len(CACHED_ENDPOINTS))]]
  /\ UNCHANGED <<CACHED_ENDPOINTS, discoveries, populations, pipeVars, probeVars, pager, genVars>>

\* the work of the handler: its network calls, then the answer (the result,
\* or the text of the exception the work raised)
Respond(t) ==
  /\ req[t].pc = "work"
  /\ req' = [req EXCEPT ![t].pc = "done", ![t].resp = "answer",
                        ![t].netcalls = @ \o Work(req[t].handler)]
  /\ UNCHANGED <<CACHED_ENDPOINTS, discoveries, populations, pipeVars, probeVars, pager, genVars>>

NextApp ==
  \/ \E t \in Threads, r \in Requests : Receive(t, r)
  \/ \E t \in Threads : CheckCache(t)
  \/ \E t \in Threads, found \in DiscoveryResults : Populate(t, found)
  \/ \E t \in Threads : Validate(t)
  \/ \E t \in Threads : Respond(t)

SpecApp == InitApp /\ [][NextApp]_vars

(***************************************************************************)
(* Properties of test_single_endpoint                                      *)
(***************************************************************************)
\* the run took the early exit
Halted == pc = "done" /\ probes /= <<>> /\ probes[1].status = 401

\* the run reached its end without taking the early exit
Completed == pc = "done" /\ ~Halted

PhasesOfProbes == [i \in 1..Len(probes) |-> probes[i].phase]

\* the keys of the record of the early exit
MinimalKeys ==
  {"baseline", "enum_results", "combinatorial_result", "logic_findings",
   "granular_fuzz", "auth_findings", "ai_analysis"}

\* C1: when the Baseline probe answers 401 the pipeline halts: the Baseline
\* is the only probe ever issued and the minimal record with the Baseline
\* result is returned.
C1_HaltOnBaseline401 ==
  (probes /= <<>> /\ probes[1].status = 401) =>
     /\ PhasesOfProbes = <<"baseline">>
     /\ pc = "done"
     /\ DOMAIN ret = MinimalKeys
     /\ ret.baseline = call_endpoint(ep.method, Response(401, TRUE))

C1_Witness == Halted /\ Len(ep.params) > 0

\* the number of probes a run that is not halted has to issue
RECURSIVE PlannedFrom(_, _, _)
PlannedFrom(i, e, args) ==
  IF i > Len(PhaseOrder) THEN 0
  ELSE PlanLen(PhaseOrder[i], e, args) + PlannedFrom(i + 1, e, args)

\* C2: apart from the 401 early exit a transport failure of a probe never
\* aborts the run: the run does not end in an exception after a probe that
\* failed in transport, and a finished run has issued every probe.
C2_TransportFailureNeverAborts ==
  /\ (probes /= <<>> /\ probes[Len(probes)].status = NoStatus) => pc /= "raised"
  /\ Completed => Len(probes) = PlannedFrom(1, ep, a)

\* C3: call_endpoint hands back a result on every path and lets no transport
\* exception out; in the result exactly one of status_code and error is
\* set, error is set exactly when the transport failed, and a connection
\* failure gives the text 'Connection refused or DNS failure'.
C3_CallEndpointAlwaysReturns ==
  probe_call.impl /= "none" =>
     /\ probe_call.returned
     /\ probe_result.error /= "uncaught"
     /\ (probe_result.status_code /= NoStatus) /= (probe_result.error /= NoError)
     /\ (probe_result.error /= NoError) <=> (probe_call.t.kind /= "response")
     /\ probe_call.t.kind = "response" => probe_result.status_code = probe_call.t.status
     /\ probe_call.t.kind \in {"ConnectionError", "ConnectTimeout"} =>
          probe_result.error = "Connection refused or DNS failure"

C3_Witness ==
  /\ probe_call.impl = "swagger_tester"
  /\ probe_call.t.kind = "ConnectTimeout"
  /\ probe_result.error = "Connection refused or DNS failure"
  /\ probe_result.status_code = NoStatus

\* the rank of a phase in the order the specification lists the phases
SpecRank(phase) ==
  CASE phase = "baseline"          -> 1
    [] phase = "auth"              -> 2
    [] phase = "param_removal"     -> 3
    [] phase = "empty_values"      -> 4
    [] phase = "negative"          -> 5
    [] phase = "path_fuzz"         -> 6
    [] phase = "enum"              -> 7
    [] phase = "field_progression" -> 8
    [] OTHER                       -> 0

\* C4: the probes of one run are issued phase by phase in the order Baseline,
\* Auth Enforcement, Required-Parameter Detection, Empty-Value Handling,
\* Negative-Method, Path-Parameter Fuzzing, Enum Validation, Field-Selector
\* Progression: no probe of a later phase precedes a probe of an earlier one.
C4_PhasesInSpecifiedOrder ==
  \A i, j \in 1..Len(probes) :
     (i < j /\ SpecRank(probes[i].phase) > 0 /\ SpecRank(probes[j].phase) > 0)
        => SpecRank(probes[i].phase) <= SpecRank(probes[j].phase)

\* every result list of the halted record is empty
HaltedListsEmpty ==
  /\ ret.enum_results = <<>>
  /\ ret.combinatorial_result.results = <<>>
  /\ ret.combinatorial_result.total_count = 0
  /\ ret.logic_findings = <<>>
  /\ ret.granular_fuzz = <<>>
  /\ ret.auth_findings = <<>>

\* C5 as stated: the halted record holds the Baseline (and Auth) results only,
\* every other list is empty and ai_analysis is null whatever run_ai is.
C5_Original ==
  Halted => /\ DOMAIN ret \subseteq MinimalKeys \cup {"auth_test"}
            /\ HaltedListsEmpty
            /\ ret.ai_analysis = "None"

\* C5 amended: the halted record holds the Baseline result and no Auth
\* result, every list in it is empty, and ai_analysis is null when run_ai is
\* false and the fixed "Authentication failed (401)" text when it is true.
C5_HaltedRecord ==
  Halted => /\ DOMAIN ret = MinimalKeys
            /\ ret.baseline = loc.baseline
            /\ loc.auth_result = NoResult
            /\ HaltedListsEmpty
            /\ ret.ai_analysis = (IF a.run_ai THEN "Authentication failed (401)" ELSE "None")

C5_Witness == Halted /\ a.run_ai

\* C6: under every interleaving of the handlers fetch_all_endpoints is
\* called at most once and CACHED_ENDPOINTS is assigned at most once.
C6_CachePopulatedAtMostOnce == discoveries <= 1 /\ populations <= 1

\* the run_test requests that have been answered
Answered == {t \in Threads : req[t].handler = "run_test" /\ req[t].pc = "done"}

\* the index is missing or outside [0, len)
OutOfRange(index, len) == ~index.present \/ index.i < 0 \/ index.i >= len

\* C7 as stated: a run_test request whose index is missing or out of range
\* for the cached list is answered 'Invalid endpoint index' and has made no
\* network call at all, neither a probe nor a discovery fetch.
C7_Original ==
  \A t \in Answered :
     OutOfRange(req[t].index, req[t].seen) =>
        req[t].resp = "Invalid endpoint index" /\ req[t].netcalls = <<>>

\* C7 amended: a run_test request whose index is missing or out of range for
\* the cached list is answered 'Invalid endpoint index' before any probe;
\* the one network call it can have made is the discovery fetch run_test
\* issues when it finds the cache empty.  A request that probes has an index
\* inside the list.
C7_InvalidIndexRejectedBeforeProbe ==
  \A t \in Threads :
     req[t].handler = "run_test" =>
        /\ (req[t].pc = "done" /\ OutOfRange(req[t].index, req[t].seen)) =>
              /\ req[t].resp = "Invalid endpoint index"
              /\ req[t].netcalls \in {<<>>, <<"discovery">>}
        /\ req[t].pc = "work" => ~OutOfRange(req[t].index, req[t].seen)
        /\ InSeq("probe", req[t].netcalls) => ~OutOfRange(req[t].index, req[t].seen)

C7_Witness ==
  \E t \in Answered :
     /\ req[t].index = Index(MaxEndpoints)
     /\ req[t].seen = MaxEndpoints
     /\ req[t].resp = "Invalid endpoint index"
     /\ req[t].netcalls = <<"discovery">>

\* C8: a combination window whose offset lies beyond total_count is rejected
\* before any network call: no probe, not even the Baseline, is issued.
C8_OffsetBeyondTotalRejected ==
  (a.combinatorial_mode = "full" /\ a.comb_offset > total_count(ep, a)) => probes = <<>>

\* what paging has to give back, window after window
Enumeration(e, args) == IF e.params = <<>> THEN <<>> ELSE all_combos_dicts(e, args)

PagesSoFar(p, all) ==
  /\ \A i \in 1..Len(p.totals) : p.totals[i] = Len(all)
  /\ Flatten(p.pages) = [i \in 1..Min(p.offset, Len(all)) |-> all[i]]
  /\ NoDup(Flatten(p.pages))
  /\ p.pc = "done" => Flatten(p.pages) = all
  /\ p.again /= <<>> =>
        /\ p.again[1].results = p.pages[p.again[1].page]
        /\ p.again[1].total_count = Len(all)

ExpectedTested(e, args) ==
  IF args.combinatorial_mode = "minimal"
  THEN <<baseline_values(e, args)>>
  ELSE Window(all_combos_dicts(e, args), args.comb_offset, args.comb_limit)

CombProbes == SelectSeq(probes, LAMBDA q : q.phase = "comb")

\* C10: for an endpoint with parameters, a run that is over (and was not
\* halted) has tested one combination, the all-baseline one, in mode minimal,
\* and the combinations at [offset, offset+limit) in mode full.
C10_TestsExactlyTheWindow ==
  (pc \in {"done", "raised"} /\ ~Halted /\ ep.params /= <<>>) =>
     /\ Len(CombProbes) = Len(ExpectedTested(ep, a))
     /\ pc = "done" =>
          [i \in 1..Len(ret.combinatorial_result.results) |->
             ret.combinatorial_result.results[i].params_used] = ExpectedTested(ep, a)

\* the product of the pool sizes of names[from..]
RECURSIVE PoolProduct(_, _, _)
PoolProduct(pools, names, from) ==
  IF from > Len(names) THEN 1
  ELSE Len(pools[names[from]]) * PoolProduct(pools, names, from + 1)

\* the k-th tuple (k from 1) of the Cartesian product in lexicographic order:
\* the first name is the most significant digit
LexCombo(pools, base, names, k) ==
  [n \in DOMAIN base |->
     IF InSeq(n, names)
     THEN LET i == CHOOSE j \in 1..Len(names) : names[j] = n
          IN  pools[n][(((k - 1) \div PoolProduct(pools, names, i + 1)) % Len(pools[n])) + 1]
     ELSE base[n]]

LexProduct(pools, base, names) ==
  [k \in 1..PoolProduct(pools, names, 1) |-> LexCombo(pools, base, names, k)]

\* the sweep of one parameter: every pool value after the baseline, in pool order
SweepOf(pools, base, name) ==
  [i \in 1..(Len(pools[name]) - 1) |-> Put(base, name, pools[name][i + 1])]

SweepsOf(pools, base, names) ==
  Flatten([i \in 1..Len(names) |-> SweepOf(pools, base, names[i])])

\* the inclusion filter in force, and the included names that are not isolated
FilterOf(g) ==
  IF g.a.include_params.given /\ g.a.include_params.names /= <<>>
  THEN g.a.include_params.names ELSE ParamNames(g.ep)

MainOf(g) == SelectSeq(FilterOf(g), LAMBDA n : ~InSeq(n, g.a.isolated_params))

\* the isolated parameters taken in the order of the inclusion filter
IsolatedInFilterOrder(g) == SelectSeq(FilterOf(g), LAMBDA n : InSeq(n, g.a.isolated_params))

\* C11 as stated: the enumeration is the Cartesian product of the main pools
\* in lexicographic order (parameters in inclusion-filter order, values in
\* pool order) followed by the sweeps of the isolated parameters taken in
\* inclusion-filter order.
C11_Original ==
  gen.pc = "generated" =>
     gen.combos = LexProduct(gen.pools, gen.baseline_values, MainOf(gen))
                  \o SweepsOf(gen.pools, gen.baseline_values, IsolatedInFilterOrder(gen))

\* C11 amended: the enumeration is the Cartesian product of the main pools in
\* lexicographic order (parameters in inclusion-filter order, values in pool
\* order) followed by the sweeps of the isolated parameters taken in the
\* order of the isolated list (values in pool order, the baseline skipped).
C11_EnumerationOrder ==
  gen.pc = "generated" =>
     gen.combos = LexProduct(gen.pools, gen.baseline_values, MainOf(gen))
                  \o SweepsOf(gen.pools, gen.baseline_values, gen.a.isolated_params)

\* two isolated parameters listed against the order of the filter, both swept
C11_Witness ==
  /\ gen.pc = "generated"
  /\ Len(gen.a.isolated_params) = 2
  /\ IsolatedInFilterOrder(gen) /= gen.a.isolated_params
  /\ Len(IsolatedInFilterOrder(gen)) = 2
  /\ \A i \in 1..2 : Len(gen.pools[gen.a.isolated_params[i]]) > 1

\* the pool sizes minus one of names[from..], summed
RECURSIVE SweepCount(_, _, _)
SweepCount(pools, names, from) ==
  IF from > Len(names) THEN 0
  ELSE (Len(pools[names[from]]) - 1) + SweepCount(pools, names, from + 1)

\* C12: total_count is the product of the pool sizes of the main-pool
\* parameters (included and not isolated) plus, for every isolated parameter,
\* its pool size minus one.
C12_TotalCount ==
  gen.pc = "generated" =>
     gen.total_count = PoolProduct(gen.pools, MainOf(gen), 1)
                       + SweepCount(gen.pools, gen.a.isolated_params, 1)

\* a main pool and an isolated parameter that both have values to vary
C12_Witness ==
  /\ gen.pc = "generated"
  /\ PoolProduct(gen.pools, MainOf(gen), 1) > 1
  /\ SweepCount(gen.pools, gen.a.isolated_params, 1) > 1
  /\ gen.total_count = PoolProduct(gen.pools, MainOf(gen), 1)
                       + SweepCount(gen.pools, gen.a.isolated_params, 1)

\* the parameter of a name, and the candidates collected for it
ParamOf(g, name) == g.ep.params[LastIndex(g.ep, name)]

CandidatesOf(g, name) ==
  Candidates(ParamOf(g, name),
             AllSamples(ParamOf(g, name), g.a.param_overrides.m, g.a.random_overrides),
             g.a.multi_params)

Included(g, name) == InSeq(name, FilterOf(g))

\* where a value is first seen among the candidates (0: nowhere)
FirstSeen(cands, x) ==
  IF InSeq(x, cands)
  THEN CHOOSE i \in 1..Len(cands) : cands[i] = x /\ \A j \in 1..(i - 1) : cands[j] /= x
  ELSE 0

\* the pool keeps every candidate once, in the order they were first seen
FirstSeenOrder(pool, cands) ==
  /\ \A i \in 1..Len(cands) : InSeq(cands[i], pool)
  /\ \A i, j \in 1..Len(pool) :
        (i < j /\ FirstSeen(cands, pool[i]) > 0 /\ FirstSeen(cands, pool[j]) > 0)
           => FirstSeen(cands, pool[i]) < FirstSeen(cands, pool[j])

\* C13: every pool is non-empty, holds no value twice, keeps the candidates
\* in first-seen order, and the baseline value of the parameter is the
\* element at index 0 of its pool.
C13_PoolsDeduplicatedInOrder ==
  gen.pc = "generated" =>
     \A name \in DOMAIN gen.pools :
        /\ gen.pools[name] /= <<>>
        /\ NoDup(gen.pools[name])
        /\ gen.baseline_values[name] = gen.pools[name][1]
        /\ Included(gen, name) => FirstSeenOrder(gen.pools[name], CandidatesOf(gen, name))

\* a pool built from candidates that repeat a value
C13_Witness ==
  /\ gen.pc = "generated"
  /\ \E name \in DOMAIN gen.pools :
        /\ Included(gen, name)
        /\ ~NoDup(CandidatesOf(gen, name))
        /\ Len(gen.pools[name]) >= 3

\* the samples collected for a parameter: none outside the inclusion filter
SamplesOf(g, name) ==
  IF Included(g, name)
  THEN AllSamples(ParamOf(g, name), g.a.param_overrides.m, g.a.random_overrides)
  ELSE <<>>

\* the positions of the absence sentinel in a pool
AbsentAt(pool) == {i \in 1..Len(pool) : pool[i] = NoneV}

\* C14: in every pool the absence sentinel occurs at most once, and only as
\* the last element of a non-required parameter's pool (the single element
\* when no samples were collected) or as the second element of the pool
\* [example or default, absent] of a required parameter with no samples; a
\* required parameter with a collected sample never has it.
C14_AbsenceSentinelPlacement ==
  gen.pc = "generated" =>
     \A name \in DOMAIN gen.pools :
        /\ Cardinality(AbsentAt(gen.pools[name])) <= 1
        /\ ~ParamOf(gen, name).required =>
              /\ AbsentAt(gen.pools[name]) \subseteq {Len(gen.pools[name])}
              /\ SamplesOf(gen, name) = <<>> => gen.pools[name] = <<NoneV>>
        /\ ParamOf(gen, name).required =>
              /\ SamplesOf(gen, name) /= <<>> => AbsentAt(gen.pools[name]) = {}
              /\ AbsentAt(gen.pools[name]) /= {} =>
                    /\ SamplesOf(gen, name) = <<>>
                    /\ gen.pools[name] = <<ExampleOrDefault(ParamOf(gen, name)), NoneV>>

\* a required parameter with samples beside an optional one with samples
C14_Witness ==
  /\ gen.pc = "generated"
  /\ \E r, o \in DOMAIN gen.pools :
        /\ ParamOf(gen, r).required /\ SamplesOf(gen, r) /= <<>>
        /\ ~ParamOf(gen, o).required /\ SamplesOf(gen, o) /= <<>>
        /\ AbsentAt(gen.pools[r]) = {}
        /\ AbsentAt(gen.pools[o]) = {Len(gen.pools[o])}

\* the distinct samples, in the order they were first seen
DistinctSamples(samples) ==
  SelectSeq([i \in 1..Len(samples) |->
               [s |-> samples[i], first |-> \A j \in 1..(i - 1) : samples[j] /= samples[i]]],
            LAMBDA e : e.first)

\* the non-empty sets of positions among n samples
IndexSets(n) == (SUBSET (1..n)) \ {{}}

\* smaller subsets first and, within a size, input order
SubsetBefore(A, B) ==
  \/ Cardinality(A) < Cardinality(B)
  \/ /\ Cardinality(A) = Cardinality(B)
     /\ A /= B
     /\ \A y \in B \ A : \E x \in A \ B : x < y

\* the samples at the positions of A, in input order
SamplesAt(d, A) ==
  [k \in 1..Cardinality(A) |->
     d[CHOOSE i \in A : Cardinality({j \in A : j < i}) = k - 1].s]

\* the non-empty subsets of the distinct samples d, by size then input order
SubsetsBySize(d) ==
  [r \in 1..Cardinality(IndexSets(Len(d))) |->
     ListV(SamplesAt(d, CHOOSE A \in IndexSets(Len(d)) :
              Cardinality({B \in IndexSets(Len(d)) : SubsetBefore(B, A)}) = r - 1))]

\* a pool before the absence sentinel is appended
BeforeSentinel(pool) == SelectSeq(pool, LAMBDA x : x /= NoneV)

MultiSampled(g, name) ==
  Included(g, name) /\ name \in g.a.multi_params /\ SamplesOf(g, name) /= <<>>

\* C15: for a parameter flagged for multi-value combination testing with
\* collected samples, the pool before the absence sentinel is exactly the
\* non-empty subsets of the samples, ordered by increasing subset size and,
\* within a size, by input order.
C15_PowerSetPool ==
  gen.pc = "generated" =>
     \A name \in DOMAIN gen.pools :
        MultiSampled(gen, name) =>
           BeforeSentinel(gen.pools[name]) = SubsetsBySize(DistinctSamples(SamplesOf(gen, name)))

\* C16: every generated combination assigns a value (or the absence
\* sentinel) to every parameter of the endpoint, and a parameter outside the
\* inclusion filter has a one-element pool and carries its own baseline
\* value in every combination, whatever the include, isolated and multi
\* sets are.
C16_ExcludedParamsKeepBaseline ==
  gen.pc = "generated" =>
     /\ \A i \in 1..Len(gen.combos) : DOMAIN gen.combos[i] = Range(ParamNames(gen.ep))
     /\ \A name \in Range(ParamNames(gen.ep)) :
           ~Included(gen, name) =>
              /\ Len(gen.pools[name]) = 1
              /\ \A i \in 1..Len(gen.combos) :
                    gen.combos[i][name] = gen.baseline_values[name]

\* several combinations while a parameter outside the filter is named both
\* isolated and multi and has sample text
C16_Witness ==
  /\ gen.pc = "generated"
  /\ Len(gen.combos) >= 2
  /\ \E name \in Range(ParamNames(gen.ep)) :
        /\ ~Included(gen, name)
        /\ InSeq(name, gen.a.isolated_params)
        /\ name \in gen.a.multi_params
        /\ Truthy(Get(gen.a.param_overrides.m, name, S("")))

\* the query parameters and the body properties that take part in a request:
\* neither in the skip-set nor taken out by the inclusion filter
Participating(b) ==
  {n \in Range(QueryOrBody(b.ep)) :
     /\ n \notin b.skip_params
     /\ ~(b.include_params.given /\ ~InSeq(n, b.include_params.names))}

IsBodyProp(b, n) == InSeq(n, b.ep.body_props)

\* what a request carries for a name: Absent when it carries nothing
Carried(b, n) ==
  IF IsBodyProp(b, n) THEN Get(b.res.json_body, n, Absent) ELSE Get(b.res.query_params, n, Absent)

DeclaredRequired(b, n) ==
  IF IsBodyProp(b, n) THEN n \in b.ep.body_required ELSE ParamOf(b, n).required

DeclaredExample(b, n) ==
  IF IsBodyProp(b, n) THEN b.ep.body_schema[n].example ELSE ParamOf(b, n).example

DeclaredDefault(b, n) ==
  IF IsBodyProp(b, n) THEN b.ep.body_schema[n].default ELSE ParamOf(b, n).default

\* the declared example, else the declared default, else nothing
ExampleThenDefault(b, n) ==
  IF ~IsNone(DeclaredExample(b, n)) THEN DeclaredExample(b, n)
  ELSE IF ~IsNone(DeclaredDefault(b, n)) THEN DeclaredDefault(b, n)
  ELSE Absent

\* the values the resolution order admits.  For an optional parameter that
\* an override mapping leaves out, the order is read both ways: omitted as
\* the code comments say, or resolved by the declared example and default.
Resolved(b, n) ==
  IF n \in b.empty_params THEN {S("")}
  ELSE IF b.param_overrides.given /\ n \in DOMAIN b.param_overrides.m
  THEN {IF IsNone(b.param_overrides.m[n]) THEN Absent ELSE b.param_overrides.m[n]}
  ELSE IF b.param_overrides.given /\ ~DeclaredRequired(b, n)
  THEN {Absent, ExampleThenDefault(b, n)}
  ELSE {ExampleThenDefault(b, n)}

\* C17: build_test_url resolves each participating query or body parameter
\* by the first matching rule of: member of the empty-set, the empty string;
\* present in the override mapping, the override verbatim (null: omitted);
\* required and missing from the overrides, the declared example or default;
\* the declared example; the declared default; otherwise omitted.
C17_ResolutionOrder ==
  (built.pc = "built" /\ ~built.res.raised) =>
     \A n \in Participating(built) : Carried(built, n) \in Resolved(built, n)

\* C18: a request built with a skip-set carries no skipped parameter: a
\* query or body parameter named in skip_params is neither in the query
\* string nor in the JSON body.
C18_SkippedParamsNotCarried ==
  (built.pc = "built" /\ ~built.res.raised) =>
     \A n \in built.skip_params \cap Range(QueryOrBody(built.ep)) :
        n \notin DOMAIN built.res.query_params /\ n \notin DOMAIN built.res.json_body

\* C19: a request built with an empty-set carries every query or body
\* parameter named in empty_params with the empty string as its value.
C19_EmptyParamsCarriedEmpty ==
  (built.pc = "built" /\ ~built.res.raised) =>
     \A n \in built.empty_params \cap Range(QueryOrBody(built.ep)) :
        Carried(built, n) = S("")

\* C20: path parameters take part whatever the inclusion filter is, no
\* request leaves a placeholder of a declared path parameter unsubstituted,
\* and building never fails on a path parameter.
C20_PathAlwaysSubstituted ==
  built.pc = "built" =>
     /\ ~built.res.raised
     /\ \A n \in Placeholders(built.ep) : built.res.path[n] /= Unsubstituted

\* the arguments of a call of build_test_url, as they were handed over
ArgumentsBefore(b) ==
  [endpoint |-> b.ep, param_overrides |-> b.param_overrides, skip_params |-> b.skip_params,
   empty_params |-> b.empty_params, include_params |-> b.include_params]

InFilter(e, args) ==
  SelectSeq(QueryOrBody(e),
            LAMBDA n : args.include_params.given => InSeq(n, args.include_params.names))

\* the probes of one phase, in the order they were issued
ProbesOf(phase) == SelectSeq(probes, LAMBDA q : q.phase = phase)

\* the run went through every phase
RanThrough == pc = "done" /\ ~EarlyExit(loc.baseline)

\* C22: Required-Parameter Detection records exactly one result for each
\* query or body parameter of the endpoint that is in the inclusion filter
\* (also for endpoints that have body parameters only), and labels a
\* parameter required iff the probe without it returned a non-200 status or
\* a transport error, whatever the other probes returned.
C22_OneLabelPerParameter ==
  RanThrough =>
     /\ [i \in 1..Len(loc.param_results) |-> loc.param_results[i].param] = InFilter(ep, a)
     /\ Len(ProbesOf("param_removal")) = Len(loc.param_results)
     /\ \A i \in 1..Len(loc.param_results) :
           /\ ProbesOf("param_removal")[i].param = loc.param_results[i].param
           /\ loc.param_results[i].required_by_test
                 <=> ProbesOf("param_removal")[i].status /= 200

\* two entries of a list name the same operation of the same service
SameOperation(x, y) ==
  x.method = y.method /\ x.path = y.path /\ x.service_name = y.service_name

\* C23: the list of endpoints handed to testing contains each (method,
\* path) pair at most once: endpoints discovered from overlapping groups
\* collapse to one, in the command-line run and in the list that
\* fetch_all_endpoints builds for the UI.
C23_EndpointsUnique ==
  disc.pc = "returned" =>
     \A i, j \in 1..Len(disc.all_endpoints) :
        i /= j => ~SameOperation(disc.all_endpoints[i], disc.all_endpoints[j])

\* what a group contributes: its operations when the swagger-config and the
\* document were both answered with something usable, else nothing
Contribution(w, svc, group) ==
  IF w.config[svc] = "ok" /\ w.doc[group] = "ok" THEN Operations(svc, group) ELSE <<>>

ContributionsOf(w, svc) ==
  Flatten([g \in 1..Len(GroupsOf(svc)) |-> Contribution(w, svc, GroupsOf(svc)[g])])

\* C26: discovery never fails as a whole because one service or group
\* fails: a swagger-config or contract document that is absent, not 200 or
\* cannot be fetched or parsed contributes no endpoint, fetch_all_endpoints
\* does not raise and still returns the endpoints of every other service
\* and group, in service order.
C26_DiscoveryIsolatesFailures ==
  disc.mode = "ui" =>
     /\ disc.pc /= "raised"
     /\ disc.pc = "returned" =>
           disc.all_endpoints =
              Flatten([s \in 1..Len(Services) |-> ContributionsOf(disc.world, Services[s])])

\* what the document declares for the parameter parsed at position i: a
\* declared parameter, or the body property of that name
DeclaredAt(p, i) ==
  IF i <= Len(p.op.parameters)
  THEN [example |-> p.op.parameters[i].example,
        schema_example |-> p.op.parameters[i].schema.example,
        default |-> p.op.parameters[i].schema.default,
        enum |-> p.op.parameters[i].schema.enum,
        type |-> p.op.parameters[i].schema.type]
  ELSE [example |-> p.op.properties[1].example,
        schema_example |-> Absent,
        default |-> p.op.properties[1].default,
        enum |-> p.op.properties[1].enum,
        type |-> p.op.properties[1].type]

\* the first applicable rule of the priority order
ByPriority(d) ==
  IF d.example \notin {Absent, NoneV} THEN d.example
  ELSE IF d.schema_example \notin {Absent, NoneV} THEN d.schema_example
  ELSE IF d.default \notin {Absent, NoneV} THEN d.default
  ELSE IF d.enum /= <<>> THEN S(d.enum[1])
  ELSE CASE d.type = "string"  -> S("test")
         [] d.type = "integer" -> S("1")
         [] d.type = "number"  -> S("1.0")
         [] d.type = "boolean" -> S("true")
         [] d.type = "array"   -> S("test")
         [] OTHER              -> S("test")

\* C24: for every parameter produced by parse_endpoints (query, path,
\* header and flattened body parameters alike) the example value is chosen
\* by the first applicable rule of: declared example, schema-level example,
\* default, first enum value, type-keyed fallback; so every parsed
\* parameter has a concrete example value.
C24_ExampleByPriority ==
  parsed.pc = "parsed" =>
     \A i \in 1..Len(parsed.params) :
        /\ parsed.params[i].example \notin {Absent, NoneV}
        /\ parsed.params[i].example = ByPriority(DeclaredAt(parsed, i))

\* C25: in every endpoint returned by parse_endpoints parameter names are
\* unique across the combined query/path/body sequence: a body property
\* whose name collides with a parsed parameter is skipped and no two
\* entries of the params list share a name.
C25_ParamNamesUnique ==
  parsed.pc = "parsed" =>
     /\ NoDup([i \in 1..Len(parsed.params) |-> parsed.params[i].name])
     /\ \A i \in 1..Len(parsed.params) :
           parsed.params[i].in = "body" =>
              \A j \in 1..Len(parsed.op.parameters) :
                 parsed.op.parameters[j].name /= parsed.params[i].name

\* C27: the Auth Enforcement probe is the Baseline request with only the
\* authorization headers removed: the same URL, the same method and the
\* same JSON body as the Baseline probe of the run, for every endpoint.
C27_AuthProbeIsBaselineWithoutAuth ==
  (built.pc = "probed" /\ built.caller = "auth") =>
     /\ built.auth.headers = "none"
     /\ built.auth.method = built.baseline.method
     /\ built.auth.path = built.baseline.path
     /\ built.auth.query_params = built.baseline.query_params
     /\ built.auth.body = built.baseline.body

\* C28: the Negative-Method probe reissues the request with a method other
\* than the endpoint's own (DELETE when the endpoint is GET, PATCH
\* otherwise), for every endpoint method; it passes iff the returned status
\* is one of 405, 403, 404, 501.
C28_NegativeMethodDisallowed ==
  /\ \A i \in 1..Len(probes) :
        probes[i].phase = "negative" =>
           /\ probes[i].method /= ep.method
           /\ probes[i].method = IF ep.method = "GET" THEN "DELETE" ELSE "PATCH"
  /\ \A i \in 1..Len(loc.neg_results) :
        loc.neg_results[i].passed <=> loc.neg_results[i].status_code \in {405, 403, 404, 501}

\* the names of the endpoint's path parameters, in declaration order
PathParamNames(e) ==
  [i \in 1..Len(ParamsIn(e, "path")) |-> ParamsIn(e, "path")[i].name]

\* run_path_fuzzing has returned
PathFuzzed == ~EarlyExit(loc.baseline) /\ pc \notin {"baseline", "negative", "path_fuzz"}

\* the k-th verdict is that of the pair (parameter, fuzz value) the claim's
\* order puts in k-th place, its request overrides that parameter alone on
\* top of the caller's overrides, and its verdict follows the status
PairVerdict(k, names, verdict, probe) ==
  /\ verdict.param = names[((k - 1) \div 7) + 1]
  /\ verdict.value =
       <<"null", "undefined", "NaN", "0", "-1", "999999999", "INVALID_PATH">>[((k - 1) % 7) + 1]
  /\ probe.param = verdict.param /\ probe.value = verdict.value
  /\ probe.status = verdict.status_code
  /\ DOMAIN probe.overrides = DOMAIN a.param_overrides.m \cup {verdict.param}
  /\ probe.overrides[verdict.param] = S(verdict.value)
  /\ \A n \in DOMAIN probe.overrides \ {verdict.param} :
        probe.overrides[n] = a.param_overrides.m[n]
  /\ verdict.result \in {"PASS", "WARN (200 OK?)", "FAIL"}
  /\ verdict.result = "PASS" <=> verdict.status_code \in {404, 400, 422}
  /\ verdict.result = "WARN (200 OK?)" <=> verdict.status_code = 200

\* C29: Path-Parameter Fuzzing records exactly one verdict for each pair
\* (path parameter, fuzz value) over the seven-value vocabulary, in parameter
\* then vocabulary order, with only that one path parameter overridden; the
\* verdict is PASS iff the status is 404, 400 or 422, WARN iff it is 200 and
\* FAIL for every other outcome (5xx, transport failure).
C29_PathFuzzVerdicts ==
  /\ Len(ProbesOf("path_fuzz")) = Len(loc.path_fuzz_results)
  /\ Len(loc.path_fuzz_results) <= 7 * Len(PathParamNames(ep))
  /\ PathFuzzed => Len(loc.path_fuzz_results) = 7 * Len(PathParamNames(ep))
  /\ \A k \in 1..Len(loc.path_fuzz_results) :
        PairVerdict(k, PathParamNames(ep), loc.path_fuzz_results[k], ProbesOf("path_fuzz")[k])

\* a run over two path parameters with a caller's override that has recorded
\* all fourteen verdicts, a PASS, a WARN and, on another run, a FAIL
C29_Witness ==
  /\ PathFuzzed /\ Len(loc.path_fuzz_results) = 14
  /\ a.param_overrides.m /= EmptyDict
  /\ \E k \in 8..14 : loc.path_fuzz_results[k].result = "PASS"
  /\ loc.path_fuzz_results[1].result = "WARN (200 OK?)"

\* the reply of a log entry is a 200 response
Succeeded(entry) == entry.reply.kind = "response" /\ entry.reply.status_code = 200

\* a 429 or a timeout
Retryable(entry) ==
  \/ entry.reply.kind = "Timeout"
  \/ entry.reply.kind = "response" /\ entry.reply.status_code = 429

\* a 404 or any other status
Skipping(entry) ==
  entry.reply.kind = "response" /\ entry.reply.status_code \notin {200, 429}

ModelIndex(name) == CHOOSE i \in 1..Len(GEMINI_MODELS) : GEMINI_MODELS[i] = name

\* the request after this one: the same model again after a 429 or a timeout
\* while attempts are left, the next model after a 404, another status or the
\* last attempt, and no request at all after a 200 or another exception
FollowedBy(entry, next) ==
  IF Retryable(entry) /\ entry.attempt + 1 < 3
  THEN next.model = entry.model /\ next.attempt = entry.attempt + 1
  ELSE /\ Retryable(entry) \/ Skipping(entry)
       /\ ModelIndex(next.model) = ModelIndex(entry.model) + 1
       /\ next.attempt = 0

\* models in listed order, at most 3 attempts per model, 9 requests in all
AttemptsInOrder(log) ==
  /\ Len(log) <= 9
  /\ \A i \in 1..Len(GEMINI_MODELS) :
        Cardinality({k \in 1..Len(log) : log[k].model = GEMINI_MODELS[i]}) <= 3
  /\ log /= <<>> => log[1].model = GEMINI_MODELS[1] /\ log[1].attempt = 0
  /\ \A k \in 1..(Len(log) - 1) : FollowedBy(log[k], log[k + 1])

AllMessages ==
  {ErrorMessage(f) : f \in AskFiles} \cup {ExhaustedMessage(f) : f \in AskFiles}

\* C30 as stated: ask_gemini returns text without raising whatever the
\* service does; it tries the models in their listed order with at most 3
\* attempts per model (9 requests in total), returns the text of the first
\* 200 response, retries the same model after a 429 or a timeout, moves on
\* after a 404 or any other status, and returns the "all models exhausted"
\* message when no attempt succeeds.
C30_AskGeminiAsStated ==
  /\ AttemptsInOrder(gemini.log)
  /\ gemini.pc = "returned" =>
       /\ gemini.ret.t = "str"
       /\ Succeeded(gemini.log[Len(gemini.log)]) => gemini.ret \notin AllMessages
       /\ (\A k \in 1..Len(gemini.log) : ~Succeeded(gemini.log[k])) =>
             gemini.ret = ExhaustedMessage(gemini.file)

\* what the call returns on the last reply of its log
ReturnsOn(file, last, value) ==
  IF Succeeded(last)
  THEN CASE last.reply.body = "text"      -> value.t = "str" /\ value \notin AllMessages
         [] last.reply.body = "null_text" -> value = NoneV
         [] OTHER                         -> value = ErrorMessage(file)
  ELSE IF Retryable(last) \/ Skipping(last)
  THEN /\ value = ExhaustedMessage(file)
       /\ last.model = GEMINI_MODELS[Len(GEMINI_MODELS)]
       /\ Skipping(last) \/ last.attempt = 2
  ELSE value = ErrorMessage(file)

AskGeminiSafe ==
  /\ AttemptsInOrder(gemini.log)
  /\ gemini.slept <= 3 * (2 + 4 + 8)
  /\ gemini.pc = "post" =>
       \A k \in 1..Len(gemini.log) : Retryable(gemini.log[k]) \/ Skipping(gemini.log[k])
  /\ gemini.pc = "returned" =>
       /\ gemini.log /= <<>>
       /\ ReturnsOn(gemini.file, gemini.log[Len(gemini.log)], gemini.ret)

\* C30, amended: ask_gemini always terminates and returns without raising;
\* it tries the models in their listed order with at most 3 attempts per
\* model (9 requests in total), retries the same model after a 429 or a
\* timeout and moves on after a 404 or any other status; it returns the text
\* field of the first 200 response as it is (None when the field is null),
\* the "all models exhausted" message when every attempt ended in a 429, a
\* timeout or a non-200 status, and an error message at once, with no
\* further attempt, when a request fails with any other exception or a 200
\* response does not have the expected shape.
C30_AskGeminiReturns == []AskGeminiSafe /\ <>(gemini.pc = "returned")

\* nine requests, rate limits and timeouts among them, then the exhausted
\* message
C30_Witness ==
  /\ gemini.pc = "returned" /\ Len(gemini.log) = 9
  /\ gemini.ret = ExhaustedMessage(gemini.file)
  /\ \E k \in 1..9 : gemini.log[k].reply.kind = "Timeout"
  /\ \E k \in 1..9 : gemini.log[k].reply.kind = "response" /\ gemini.log[k].reply.status_code = 429

====
